---- MODULE Spec2Model ----
(***************************************************************************)
(* Shared-memory telemetry transport of vorosim: the emulator (writer) of  *)
(* utils/win_mmap/writer/core.py, the provider (reader) of                 *)
(* utils/win_mmap/provider/core.py and the read part of the streaming tick *)
(* of core.py.                                                             *)
(*                                                                         *)
(* Bytes are naturals 0..255, a name is a sequence of code points, a float *)
(* is an integer.  The region is modelled field by field, every field      *)
(* holding what struct.pack_into stores in it.                             *)
(***************************************************************************)
EXTENDS Integers, Sequences, FiniteSets, TLC

None == "None"

(***************************************************************************)
(* Wire format                                                             *)
(***************************************************************************)
MAGIC == <<86, 83, 77, 49>>            \* b"VSM1"
VERSION == 1
SLOT_NAME_BYTES == 64
FLAG_ACTIVE == 1
REPLACEMENT == 65533                   \* U+FFFD, errors="replace"

Zeros(n) == [k \in 1..n |-> 0]

Take(s, n) == [k \in 1..(IF Len(s) < n THEN Len(s) ELSE n) |-> s[k]]

\* str.encode("utf-8") on code points below 0x800
Utf8Char(cp) ==
    IF cp < 128 THEN <<cp>>
    ELSE <<192 + (cp \div 64), 128 + (cp % 64)>>

RECURSIVE Utf8Encode(_)
Utf8Encode(name) ==
    IF name = <<>> THEN <<>>
    ELSE Utf8Char(Head(name)) \o Utf8Encode(Tail(name))

IsCont(b) == b >= 128 /\ b < 192

\* bytes.decode("utf-8", errors="replace") on bytes of one- and two-byte
\* sequences: an ill-formed byte becomes U+FFFD and decoding resumes after it
RECURSIVE Utf8DecodeReplace(_)
Utf8DecodeReplace(bs) ==
    IF bs = <<>> THEN <<>>
    ELSE IF bs[1] < 128 THEN <<bs[1]>> \o Utf8DecodeReplace(Tail(bs))
    ELSE IF bs[1] >= 194 /\ bs[1] < 224 /\ Len(bs) >= 2 /\ IsCont(bs[2])
         THEN <<(bs[1] - 192) * 64 + (bs[2] - 128)>>
              \o Utf8DecodeReplace(Tail(Tail(bs)))
    ELSE <<REPLACEMENT>> \o Utf8DecodeReplace(Tail(bs))

_encode_name(name) ==
    LET raw == Take(Utf8Encode(name), SLOT_NAME_BYTES - 1)
    IN  raw \o Zeros(SLOT_NAME_BYTES - Len(raw))

\* bytes.split(b"\x00", 1)[0]
SplitAtNul(bs) ==
    IF \E k \in 1..Len(bs) : bs[k] = 0
    THEN Take(bs, (CHOOSE k \in 1..Len(bs) :
                      bs[k] = 0 /\ \A j \in 1..(k - 1) : bs[j] # 0) - 1)
    ELSE bs

\* a decoder that does not cut the field at its first zero byte
_decode_name_nosplit(name_bytes) == Utf8DecodeReplace(name_bytes)

_decode_name(name_bytes) == Utf8DecodeReplace(SplitAtNul(name_bytes))

\* struct.pack of an unsigned integer field of n bytes, little-endian ("<")
RECURSIVE PackUInt(_, _)
PackUInt(v, n) == IF n = 0 THEN <<>> ELSE <<v % 256>> \o PackUInt(v \div 256, n - 1)

\* struct.unpack of an unsigned little-endian integer field
RECURSIVE UnpackUInt(_)
UnpackUInt(bs) == IF bs = <<>> THEN 0 ELSE bs[1] + 256 * UnpackUInt(Tail(bs))

\* struct.pack(HEADER_FMT, magic, version, counter, timestamp, capacity): 4s, I,
\* Q, d, I without padding; the 8 bytes of the double are kept as one item
PackHeader(magic, version, counter, timestamp, capacity) ==
    magic \o PackUInt(version, 4) \o PackUInt(counter, 8)
          \o <<[double |-> timestamp]>> \o PackUInt(capacity, 4)

\* struct.unpack_from(HEADER_FMT, buf, 0)
UnpackHeader(bs) ==
    [magic |-> SubSeq(bs, 1, 4),
     version |-> UnpackUInt(SubSeq(bs, 5, 8)),
     counter |-> UnpackUInt(SubSeq(bs, 9, 16)),
     timestamp |-> bs[17].double,
     capacity |-> UnpackUInt(SubSeq(bs, 18, 21))]

(***************************************************************************)
(* Bounds of the model                                                     *)
(***************************************************************************)
MaxRows == 3             \* rows of the longest replay source
MaxPublish == 7          \* publishes of a writer running alone
MaxExtraCap == 1         \* writer capacities run up to 5 + MaxExtraCap
MaxSynthT == 1           \* quantised elapsed times of the synthetic source
MaxConcPublish == 2      \* publishes of a writer running beside a reader
MaxRegionCap == 3        \* slots of a region written by another writer
MaxRegisterCap == 2      \* slots of a region whose writer registers signals late
MaxTicks == 3            \* calls of PlotWidget.tick
MaxY == 2                \* plotted values run over 0..MaxY
MaxPoints == 2           \* max_points of a tick runs over 0..MaxPoints
MaxNameLen == 64         \* names run up to MaxNameLen + 2 characters
MaxWinTicks == 3         \* timeouts of the main window's timer
MaxWinCounter == 2       \* publishes of a writer beside the main window
MaxCalls == 2
MaxReads == 3

(***************************************************************************)
(* Writer configuration (WinMmapEmulatorConfig) and replay sources         *)
(***************************************************************************)
base_signals == <<
    <<118, 101, 104, 105, 99, 108, 101, 46, 115, 112, 101, 101, 100, 95,
      107, 109, 104>>,                                \* "vehicle.speed_kmh"
    <<101, 110, 103, 105, 110, 101, 46, 114, 112, 109>>,   \* "engine.rpm"
    <<116, 104, 114, 111, 116, 116, 108, 101>>,            \* "throttle"
    <<98, 114, 97, 107, 101>>,                             \* "brake"
    <<115, 116, 101, 101, 114>> >>                         \* "steer"

NumSignals == Len(base_signals)

\* a cell of the file: text that float() accepts (ok) or rejects
Num(v) == [ok |-> TRUE, v |-> v]
BadCell == [ok |-> FALSE, v |-> 0]

\* row r of the generated sources: column c holds 10 * r + c
GoodRow(r, ncols) == [c \in 1..ncols |-> Num(10 * r + c)]

GoodFile(nrows, ncols) ==
    [kind |-> "file", fieldnames |-> Take(base_signals, ncols),
     rows |-> [r \in 1..nrows |-> GoodRow(r, ncols)]]

\* a file without the "steer" column, with an unparseable cell and a short row
RaggedFile ==
    [kind |-> "file", fieldnames |-> Take(base_signals, 4),
     rows |-> << <<Num(11), BadCell, Num(13), Num(14)>>,
                 <<Num(21), Num(22)>> >>]

CsvInputs ==
    { [kind |-> "none", fieldnames |-> <<>>, rows |-> <<>>],      \* csv_path None
      [kind |-> "notfile", fieldnames |-> <<>>, rows |-> <<>>],   \* isfile false
      [kind |-> "file", fieldnames |-> <<>>, rows |-> <<>>],      \* empty file
      GoodFile(0, NumSignals),                                    \* header only
      RaggedFile }
    \cup { GoodFile(n, NumSignals) : n \in 1..MaxRows }

WriterCaps == {0, NumSignals - 1} \cup (NumSignals..(NumSignals + MaxExtraCap))

Range(f) == { f[k] : k \in DOMAIN f }

\* float(v) with the except branch of _load_csv_rows
ParseCell(cell) == IF cell.ok THEN cell.v ELSE 0

\* one csv.DictReader row turned into the dict `out`: a missing cell is None
\* and float(None) raises TypeError
LoadRow(fieldnames, cells) ==
    [k \in Range(fieldnames) |->
        LET c == CHOOSE c \in 1..Len(fieldnames) :
                    fieldnames[c] = k
                    /\ \A d \in (c + 1)..Len(fieldnames) : fieldnames[d] # k
        IN  IF c <= Len(cells) THEN ParseCell(cells[c]) ELSE 0]

\* a loader that accepts a file without data rows
_load_csv_rows_lenient(file) ==
    IF file.fieldnames = <<>> THEN [err |-> "CSV has no header row", rows |-> <<>>]
    ELSE [err |-> None,
          rows |-> [r \in 1..Len(file.rows) |-> LoadRow(file.fieldnames, file.rows[r])]]

\* _load_csv_rows: the rows, or the ValueError it raises
_load_csv_rows(file) ==
    IF file.fieldnames = <<>> THEN [err |-> "CSV has no header row", rows |-> <<>>]
    ELSE IF file.rows = <<>> THEN [err |-> "CSV has no data rows", rows |-> <<>>]
    ELSE [err |-> None,
          rows |-> [r \in 1..Len(file.rows) |-> LoadRow(file.fieldnames, file.rows[r])]]

\* dict.get(key, default)
Get(d, key, default) == IF key \in DOMAIN d THEN d[key] ELSE default

\* the list `values` of CSV mode
CsvValues(row) == [c \in 1..NumSignals |-> Get(row, base_signals[c], 0)]

\* the list `values` of synthetic mode at quantised elapsed time t
SynthValues(t) == <<100 + 20 * t, 2000 + 1500 * t, t, 0, 0 - t>>

\* a cursor that wraps one row early
AdvanceRow_early(row_idx, n_rows) == IF row_idx + 2 >= n_rows THEN 0 ELSE row_idx + 1

\* row_idx += 1; if row_idx >= n_rows: row_idx = 0   (row_idx counts from 0)
AdvanceRow(row_idx, n_rows) == IF row_idx + 1 >= n_rows THEN 0 ELSE row_idx + 1

\* a counter that is not incremented
NextCounter_stuck(counter) == counter

\* counter += 1
NextCounter(counter) == counter + 1

(***************************************************************************)
(* The region                                                              *)
(***************************************************************************)
ZeroHeader == [magic |-> Zeros(4), version |-> 0, counter |-> 0,
               timestamp |-> 0, capacity |-> 0]
ZeroSlot == [name |-> Zeros(SLOT_NAME_BYTES), value |-> 0, flags |-> 0, pad |-> 0]

\* struct.pack_into(SLOT_FMT, buf, off, _encode_name(name), float(value), flags, 0)
SlotRecord(name, value, active) ==
    [name |-> _encode_name(name), value |-> value,
     flags |-> IF active THEN FLAG_ACTIVE ELSE 0, pad |-> 0]

HeaderRecord(counter, ts, capacity) ==
    [magic |-> MAGIC, version |-> VERSION, counter |-> counter,
     timestamp |-> ts, capacity |-> capacity]

(***************************************************************************)
(* State                                                                   *)
(***************************************************************************)
VARIABLES
    IS_WINDOWS,     \* os.name == "nt"
    shm,            \* the named mapping: [mapped, header, slots]
    slot_pub,       \* history: per slot, the publish (counter + 1) that wrote
                    \* its value; 0 for initialisation and registration
    cfg,            \* WinMmapEmulatorConfig: [capacity, csv]
    wpc,            \* position of run_emulator
    werr,           \* the exception run_emulator left with, or None
    buf,            \* the writer's mmap object: None, "open" or "closed"
    use_csv, csv_rows, counter, row_idx, values,   \* locals of run_emulator
    wi,             \* loop index i of the slot loops
    now,            \* readings of time.time() taken so far
    capacity,       \* WinMmapProvider.capacity
    _buf,           \* WinMmapProvider._buf: [open, n], n the slots in the view
    _index,         \* WinMmapProvider._index, a dict in insertion order
    rpc,            \* position of the reader: "idle", "scan" or "read"
    rop,            \* the operation the reader is in
    idx, ri,        \* locals of _rebuild_index
    frame, rk,      \* locals of read_frame
    frame_pub,      \* history: per name of `frame`, slot_pub of the value read
    tick_hdr,       \* (counter, ts) read by the tick in progress
    ret,            \* outcome of the last completed reader operation
    index_at_connect,   \* history kept by SpecRegister: the names indexed when
                        \* the last connect returned
    last_poll,      \* history kept by SpecPoll: the counter and frame of the
                    \* last tick, the number n of ticks in a row that ran with
                    \* no write of the writer since the first of them began,
                    \* and whether the writer wrote during the current tick
    _tracks,        \* PlotWidget._tracks: a dict in insertion order, as a
                    \* sequence of SignalTrack [signal_name, x, y, min_val, max_val]
    ppc,            \* position of PlotWidget.tick
    pk,             \* tick: the track the loop is at (from 1)
    pframe,         \* tick: its argument frame
    px,             \* tick: its argument x_value
    pmax,           \* tick: its argument max_points
    pchanged,       \* tick: its local `changed`
    pcall,          \* the method of PlotWidget called last
    nticks,         \* the number of calls of tick so far
    seen,           \* history: per tracked signal, every (x, y) observed since
                    \* its track was created, and the max_points values used
    cpc,            \* position of a round trip through the wire format
    cin,            \* its input: a name and the fields of a header
    cenc,           \* the bytes packed from the input
    cdec,           \* what is unpacked from the bytes
    provider,       \* VoroSimMainWindow.provider: None or the WinMmapProvider
                    \* whose fields are capacity, _buf and _index
    is_running,     \* VoroSimMainWindow.is_running
    timer,          \* self.timer.isActive()
    _plot_paused,   \* VoroSimMainWindow._plot_paused
    _resume_timer,  \* self._resume_timer.isActive()
    gpc,            \* position of the main window: in its constructor, idle,
                    \* or inside the handler that called the provider
    closed,         \* closeEvent has run
    plot_top,       \* _tracks of self.plot_top
    plot_bottom,    \* _tracks of self.plot_bottom
    wticks,         \* the number of timeouts of self.timer so far
    steady,         \* history: no writer has replaced the region and the
                    \* provider has not been disconnected since construction
    _running,       \* TelemetryWorker._running
    _shm,           \* TelemetryWorker._shm: None or the shared-memory object
    _lock,          \* the thread that holds TelemetryWorker._lock, or None
    _latest_t,      \* TelemetryWorker._latest_t
    _latest_sample, \* TelemetryWorker._latest_sample
    kpc,            \* position of the thread that runs start_stream
    kt, ks,         \* locals t and s of start_stream
    statuses,       \* what the running call of start_stream has emitted on status
    nfinished,      \* how often the running call has emitted finished
    ncalls,         \* the calls of start_stream that passed the guard so far
    nreads,         \* the reads of the shared memory so far
    upc,            \* position of the UI thread inside get_latest
    ut, us,         \* what get_latest has read of _latest_t and _latest_sample
    got,            \* the pair get_latest returned last, <<>> before the first
    kcall,          \* the method of TelemetryWorker called last by the UI thread
    pairs,          \* history: the pairs (t, s) stored by the loop iterations
    stopped,        \* history: stop_stream has cleared _running during this call
    kobj            \* the object a run of SpecStop is about

wvars == <<cfg, wpc, werr, buf, use_csv, csv_rows, counter, row_idx, values, wi, now>>
mvars == <<shm, slot_pub>>
rvars == <<capacity, _buf, _index, rpc, rop, idx, ri, frame, rk, frame_pub, tick_hdr, ret>>
hvars == <<index_at_connect, last_poll>>
pvars == <<_tracks, ppc, pk, pframe, px, pmax, pchanged, pcall, nticks, seen>>
cvars == <<cpc, cin, cenc, cdec>>
gvars == <<provider, is_running, timer, _plot_paused, _resume_timer, gpc, closed,
           plot_top, plot_bottom, wticks, steady>>
kvars == <<_running, _shm, _lock, _latest_t, _latest_sample, kpc, kt, ks, statuses,
           nfinished, ncalls, nreads, upc, ut, us, got, kcall, pairs, stopped, kobj>>
vars == <<IS_WINDOWS, mvars, wvars, rvars, hvars, pvars, cvars, gvars, kvars>>

\* a fresh mapping is zero-filled
ZeroRegion(n) == [mapped |-> TRUE, header |-> ZeroHeader, slots |-> [k \in 1..n |-> ZeroSlot]]
NoMapping == [mapped |-> FALSE, header |-> ZeroHeader, slots |-> <<>>]
NoBuf == [open |-> FALSE, n |-> 0]

\* number of slots that fit in the mapping
NSlots(m) == Len(m.slots)

WriterInit ==
    /\ cfg \in [capacity : WriterCaps, csv : CsvInputs]
    /\ wpc = "start"
    /\ werr = None
    /\ buf = None
    /\ use_csv = FALSE
    /\ csv_rows = <<>>
    /\ counter = 0
    /\ row_idx = 0
    /\ values = <<>>
    /\ wi = 0
    /\ now = 0

Raise(e) == wpc' = "raised" /\ werr' = e

(***************************************************************************)
(* run_emulator                                                            *)
(***************************************************************************)
\* lines 79-91: platform check, replay source, creation of the mapping
Start ==
    /\ wpc = "start"
    /\ IF ~IS_WINDOWS
       THEN /\ Raise("requires Windows")
            /\ UNCHANGED <<use_csv, csv_rows, buf, shm, slot_pub>>
       ELSE LET csv == cfg.csv.kind = "file"
                loaded == _load_csv_rows(cfg.csv)
            IN  /\ use_csv' = csv
                /\ IF csv /\ loaded.err # None
                   THEN /\ Raise(loaded.err)
                        /\ UNCHANGED <<csv_rows, buf, shm, slot_pub>>
                   ELSE /\ csv_rows' = IF csv THEN loaded.rows ELSE <<>>
                        /\ \/ /\ buf' = "open"          \* mmap.mmap(-1, size, tagname)
                              /\ shm' = IF ~shm.mapped THEN ZeroRegion(cfg.capacity) ELSE shm
                              /\ slot_pub' = IF ~shm.mapped
                                             THEN [k \in 1..cfg.capacity |-> 0]
                                             ELSE slot_pub
                              /\ wpc' = "init_header"
                              /\ werr' = None
                           \/ /\ Raise("mmap failed")   \* OSError of mmap.mmap
                              /\ UNCHANGED <<buf, shm, slot_pub>>
    /\ UNCHANGED <<cfg, counter, row_idx, values, wi, now>>

\* _init_mapping, line 47
InitHeader ==
    /\ wpc = "init_header"
    /\ shm' = [shm EXCEPT !.header = HeaderRecord(0, now, cfg.capacity)]
    /\ now' = now + 1
    /\ wi' = 0
    /\ wpc' = IF cfg.capacity > 0 THEN "init_slots" ELSE "register"
    /\ UNCHANGED <<slot_pub, cfg, werr, buf, use_csv, csv_rows, counter, row_idx, values>>

\* an initialisation that marks the empty slots ACTIVE
InitialSlot_active == SlotRecord(<<>>, 0, TRUE)

\* _init_mapping, line 49: _write_slot(buf, i, "", 0.0, active=False)
InitialSlot == SlotRecord(<<>>, 0, FALSE)

\* _init_mapping, lines 48-49: one iteration
InitSlot ==
    /\ wpc = "init_slots"
    /\ shm' = [shm EXCEPT !.slots[wi + 1] = InitialSlot]
    /\ slot_pub' = [slot_pub EXCEPT ![wi + 1] = 0]
    /\ IF wi + 1 < cfg.capacity
       THEN wi' = wi + 1 /\ wpc' = wpc
       ELSE wi' = 0 /\ wpc' = "register"
    /\ UNCHANGED <<cfg, werr, buf, use_csv, csv_rows, counter, row_idx, values, now>>

\* lines 103-110: one iteration; pack_into raises struct.error past the end of
\* the buffer, outside the try block
Register ==
    /\ wpc = "register"
    /\ IF wi >= NSlots(shm)
       THEN /\ Raise("struct.error")
            /\ UNCHANGED <<shm, slot_pub, wi, counter, row_idx>>
       ELSE /\ shm' = [shm EXCEPT !.slots[wi + 1] = SlotRecord(base_signals[wi + 1], 0, TRUE)]
            /\ slot_pub' = [slot_pub EXCEPT ![wi + 1] = 0]
            /\ werr' = werr
            /\ IF wi + 1 < NumSignals
               THEN wi' = wi + 1 /\ wpc' = wpc /\ UNCHANGED <<counter, row_idx>>
               ELSE wi' = 0 /\ wpc' = "loop" /\ counter' = 0 /\ row_idx' = 0
    /\ UNCHANGED <<cfg, buf, use_csv, csv_rows, values, now>>

\* lines 114-140: the values of the next frame
PublishBegin ==
    /\ wpc = "loop"
    /\ IF use_csv
       THEN /\ values' = CsvValues(csv_rows[row_idx + 1])
            /\ row_idx' = AdvanceRow(row_idx, Len(csv_rows))
       ELSE /\ \E t \in 0..MaxSynthT : values' = SynthValues(t)
            /\ row_idx' = row_idx
    /\ wi' = 0
    /\ wpc' = "write_slots"
    /\ UNCHANGED <<shm, slot_pub, cfg, werr, buf, use_csv, csv_rows, counter, now>>

\* the mapping object lives as long as one handle on it is open
CloseWriterHandle ==
    /\ buf' = "closed"
    /\ shm' = IF ~_buf.open THEN NoMapping ELSE shm
    /\ slot_pub' = IF ~_buf.open THEN <<>> ELSE slot_pub

\* a slot loop that stops one value early
MoreValues_short(i, vs) == i + 2 < Len(vs)

\* for i, v in enumerate(values): is there a value after index i
MoreValues(i, vs) == i + 1 < Len(vs)

\* a publish that packs a fresh slot around the value
PublishedSlot_fresh(slot, v) == SlotRecord(<<>>, v, TRUE)

\* lines 145-146: the slot is unpacked and packed again with the new value
PublishedSlot(slot, v) == [slot EXCEPT !.value = v]

\* lines 143-146: one iteration; a struct.error is not caught by
\* `except KeyboardInterrupt`, the finally block closes the buffer
PublishSlot ==
    /\ wpc = "write_slots"
    /\ IF wi >= NSlots(shm)
       THEN /\ Raise("struct.error")
            /\ CloseWriterHandle
            /\ wi' = wi
       ELSE /\ shm' = [shm EXCEPT !.slots[wi + 1] =
                                   PublishedSlot(shm.slots[wi + 1], values[wi + 1])]
            /\ slot_pub' = [slot_pub EXCEPT ![wi + 1] = counter + 1]
            /\ UNCHANGED <<werr, buf>>
            /\ IF MoreValues(wi, values)
               THEN wi' = wi + 1 /\ wpc' = wpc
               ELSE wi' = 0 /\ wpc' = "write_header"
    /\ UNCHANGED <<cfg, use_csv, csv_rows, counter, row_idx, values, now>>

\* lines 148-151
PublishHeader ==
    /\ wpc = "write_header"
    /\ counter' = NextCounter(counter)
    /\ shm' = [shm EXCEPT !.header = HeaderRecord(counter', now, cfg.capacity)]
    /\ now' = now + 1
    /\ wpc' = "loop"
    /\ UNCHANGED <<slot_pub, cfg, werr, buf, use_csv, csv_rows, row_idx, values, wi>>

\* lines 153-156: KeyboardInterrupt inside the try block
Interrupt ==
    /\ wpc \in {"loop", "write_slots", "write_header"}
    /\ wpc' = "stopped"
    /\ CloseWriterHandle
    /\ UNCHANGED <<cfg, werr, use_csv, csv_rows, counter, row_idx, values, wi, now>>

(***************************************************************************)
(* WinMmapProvider                                                         *)
(***************************************************************************)
Min(a, b) == IF a < b THEN a ELSE b

\* str ordering of Python: by code point, a proper prefix first
LexLess(a, b) ==
    \E k \in 1..(Min(Len(a), Len(b)) + 1) :
        /\ \A j \in 1..(k - 1) : a[j] = b[j]
        /\ \/ k > Len(a) /\ k <= Len(b)
           \/ k <= Len(a) /\ k <= Len(b) /\ a[k] < b[k]

\* sorted(S) for a set of names
RECURSIVE Sorted(_)
Sorted(S) ==
    IF S = {} THEN <<>>
    ELSE LET m == CHOOSE m \in S : \A n \in S \ {m} : LexLess(m, n)
         IN  <<m>> \o Sorted(S \ {m})

\* a dict with insertion order: a sequence of [name, i] entries
Keys(d) == { d[k].name : k \in DOMAIN d }
Lookup(d, name) == (CHOOSE e \in Range(d) : e.name = name).i

\* a dict that keeps the first index stored under a name
DictSet_first(d, name, i) ==
    IF name \in Keys(d) THEN d ELSE Append(d, [name |-> name, i |-> i])

\* d[name] = i
DictSet(d, name, i) ==
    IF name \in Keys(d)
    THEN [k \in DOMAIN d |-> IF d[k].name = name THEN [name |-> name, i |-> i] ELSE d[k]]
    ELSE Append(d, [name |-> name, i |-> i])

\* frame[name] = value
FnSet(f, key, v) == [x \in (DOMAIN f) \cup {key} |-> IF x = key THEN v ELSE f[x]]

\* flags & FLAG_ACTIVE
IsActive(flags) == flags % 2 = 1

\* an iteration that does not test the ACTIVE flag
IndexSlot_any(d, slot, i) ==
    IF _decode_name(slot.name) # <<>>
    THEN DictSet(d, _decode_name(slot.name), i)
    ELSE d

\* lines 76-79: the body of one iteration of _rebuild_index
IndexSlot(d, slot, i) ==
    IF IsActive(slot.flags) /\ _decode_name(slot.name) # <<>>
    THEN DictSet(d, _decode_name(slot.name), i)
    ELSE d

\* what the reader's view holds at slot i: the mapping, and zero pages after it
ViewSlot(i) == IF i < NSlots(shm) THEN shm.slots[i + 1] ELSE ZeroSlot

NoRet == [op |-> None, err |-> None, counter |-> 0, ts |-> 0,
          names |-> <<>>, frame |-> <<>>, pubs |-> <<>>]
Returned(op) == [NoRet EXCEPT !.op = op]
Raised(op, e) == [NoRet EXCEPT !.op = op, !.err = e]
\* the handler returned before it read anything
Skipped(op) == [NoRet EXCEPT !.op = op, !.err = "skipped"]

NoPoll == [n |-> 0, dirty |-> FALSE, counter |-> 0, frame |-> <<>>]

NoCodec == [name |-> <<>>, header |-> <<>>]

\* no round trip is under way
CodecInit ==
    /\ cpc = "input"
    /\ cin = [name |-> <<>>, version |-> VERSION, counter |-> 0, timestamp |-> 0,
              capacity |-> 0]
    /\ cenc = NoCodec
    /\ cdec = NoCodec

\* VoroSimMainWindow.__init__ up to line 62: no provider, the timer started
\* by _build_timer, is_running False, two plots without tracks
WindowInit ==
    /\ provider = None
    /\ is_running = FALSE
    /\ timer = TRUE
    /\ _plot_paused = FALSE
    /\ _resume_timer = FALSE
    /\ gpc = "init"
    /\ closed = FALSE
    /\ plot_top = <<>>
    /\ plot_bottom = <<>>
    /\ wticks = 0
    /\ steady = TRUE

\* self._latest_sample = None, line 21; the samples read are numbered from 1
NoSample == 0

\* TelemetryWorker.__init__, lines 13-21
TelemetryInit ==
    /\ _running = FALSE
    /\ _shm = None
    /\ _lock = None
    /\ _latest_t = 0
    /\ _latest_sample = NoSample
    /\ kpc = "idle"
    /\ kt = 0
    /\ ks = NoSample
    /\ statuses = <<>>
    /\ nfinished = 0
    /\ ncalls = 0
    /\ nreads = 0
    /\ upc = "idle"
    /\ ut = 0
    /\ us = NoSample
    /\ got = <<>>
    /\ kcall = None
    /\ pairs = {}
    /\ stopped = FALSE

\* PlotWidget.__init__: no track; tick has not been called
PlotInit ==
    /\ _tracks = <<>>
    /\ ppc = "idle"
    /\ pk = 0
    /\ pframe = <<>>
    /\ px = 0
    /\ pmax = 0
    /\ pchanged = FALSE
    /\ pcall = None
    /\ nticks = 0
    /\ seen = <<>>

ReaderInit ==
    /\ _buf = NoBuf
    /\ _index = <<>>
    /\ rpc = "idle"
    /\ rop = None
    /\ idx = <<>>
    /\ ri = 0
    /\ frame = <<>>
    /\ rk = 0
    /\ frame_pub = <<>>
    /\ tick_hdr = <<0, 0>>
    /\ ret = NoRet
    /\ index_at_connect = {}
    /\ last_poll = NoPoll

\* outcomes of mmap.mmap(-1, size, tagname, ACCESS_READ): a view larger than
\* the mapping is refused unless it still ends inside the mapping's last page
OpenOutcomes(cap) ==
    IF ~shm.mapped \/ cap <= NSlots(shm) THEN {TRUE} ELSE {TRUE, FALSE}

\* a close that removes the named mapping under the writer
ReleaseView_unlink ==
    /\ shm' = NoMapping
    /\ slot_pub' = <<>>

\* the reader's last handle on the mapping is released
ReleaseView ==
    /\ shm' = IF buf = "open" THEN shm ELSE NoMapping
    /\ slot_pub' = IF buf = "open" THEN slot_pub ELSE <<>>

\* is_connected, line 57
is_connected == _buf.open

\* a disconnect that leaves the cached index as it is
Cleared_keep(d) == d

\* disconnect, line 54: self._index.clear()
Cleared(d) == <<>>

\* a connect that keeps the capacity it was constructed with
ConnectCapacity_requested(requested, cap) == requested

\* connect, line 47: self.capacity = int(cap)
ConnectCapacity(requested, cap) == cap

\* a disconnect that forgets to close and drop the buffer
Closed_leak(b) == b

\* disconnect, lines 51-53: self._buf.close(); self._buf = None
Closed(b) == NoBuf

\* _rebuild_index is entered with an open buffer
BeginScan(op) ==
    /\ rpc' = "scan"
    /\ rop' = op
    /\ idx' = <<>>
    /\ ri' = 0

\* connect, lines 36-48 up to the call of _rebuild_index
Connect ==
    /\ rpc = "idle"
    /\ IF ~IS_WINDOWS
       THEN /\ ret' = Raised("connect", "requires Windows")
            /\ UNCHANGED <<capacity, _buf, _index, rpc, rop, idx, ri, shm, slot_pub>>
       ELSE \E opened \in OpenOutcomes(capacity) :
            IF ~opened
            THEN /\ ret' = Raised("connect", "mmap failed")
                 /\ UNCHANGED <<capacity, _buf, _index, rpc, rop, idx, ri, shm, slot_pub>>
            ELSE LET header == IF ~shm.mapped THEN ZeroHeader ELSE shm.header
                 IN  IF header.magic # MAGIC
                     THEN /\ _buf' = Closed([open |-> TRUE, n |-> capacity])  \* self.disconnect()
                          /\ _index' = Cleared(_index)
                          /\ ReleaseView
                          /\ ret' = Raised("connect", "Bad mapping magic")
                          /\ UNCHANGED <<capacity, rpc, rop, idx, ri>>
                     ELSE /\ _buf' = [open |-> TRUE, n |-> capacity]
                          /\ capacity' = ConnectCapacity(capacity, header.capacity)
                          /\ BeginScan("connect")
                          /\ ret' = NoRet
                          /\ UNCHANGED <<_index, shm, slot_pub>>
    /\ UNCHANGED <<frame, rk, frame_pub, tick_hdr>>

\* disconnect, lines 50-54
Disconnect ==
    /\ rpc = "idle"
    /\ _buf' = Closed(_buf)
    /\ _index' = Cleared(_index)
    /\ IF _buf.open THEN ReleaseView ELSE UNCHANGED <<shm, slot_pub>>
    /\ ret' = Returned("disconnect")
    /\ UNCHANGED <<capacity, rpc, rop, idx, ri, frame, rk, frame_pub, tick_hdr>>

\* read_header, lines 59-66
ReadHeader ==
    /\ rpc = "idle"
    /\ ret' = IF ~_buf.open
              THEN Raised("read_header", "Not connected.")
              ELSE [Returned("read_header") EXCEPT !.counter = shm.header.counter,
                                                   !.ts = shm.header.timestamp]
    /\ UNCHANGED <<capacity, _buf, _index, rpc, rop, idx, ri, frame,
                   rk, frame_pub, tick_hdr, shm, slot_pub>>

\* list_signals, lines 82-84; _rebuild_index returns at once without a buffer
ListSignals ==
    /\ rpc = "idle"
    /\ IF ~_buf.open
       THEN /\ ret' = [Returned("list_signals") EXCEPT !.names = Sorted(Keys(_index))]
            /\ UNCHANGED <<rpc, rop, idx, ri>>
       ELSE /\ BeginScan("list_signals")
            /\ ret' = NoRet
    /\ UNCHANGED <<capacity, _buf, _index, frame, rk, frame_pub,
                   tick_hdr, shm, slot_pub>>

\* read_frame, lines 91-95
ReadFrame ==
    /\ rpc = "idle"
    /\ IF ~_buf.open
       THEN /\ ret' = Raised("read_frame", "Not connected.")
            /\ UNCHANGED <<rpc, rop, idx, ri>>
       ELSE /\ BeginScan("read_frame")
            /\ ret' = NoRet
    /\ UNCHANGED <<capacity, _buf, _index, frame, rk, frame_pub,
                   tick_hdr, shm, slot_pub>>

\* _on_tick, lines 296-304: return at once without a connected provider,
\* else read_header, then entry into read_frame
Tick ==
    /\ rpc = "idle"
    /\ IF ~is_connected
       THEN /\ ret' = Skipped("tick")
            /\ UNCHANGED <<rpc, rop, idx, ri, tick_hdr>>
       ELSE /\ tick_hdr' = <<shm.header.counter, shm.header.timestamp>>
            /\ BeginScan("tick")
            /\ ret' = NoRet
    /\ UNCHANGED <<capacity, _buf, _index, frame, rk, frame_pub,
                   shm, slot_pub>>

\* _rebuild_index, lines 73-79: one iteration; unpack_from raises struct.error
\* past the end of the view, before self._index is assigned
ScanSlot ==
    /\ rpc = "scan"
    /\ ri < capacity
    /\ IF ri >= _buf.n
       THEN /\ ret' = Raised(rop, "struct.error")
            /\ rpc' = "idle"
            /\ rop' = None
            /\ idx' = <<>>
            /\ ri' = 0
            /\ tick_hdr' = <<0, 0>>
       ELSE /\ idx' = IndexSlot(idx, ViewSlot(ri), ri)
            /\ ri' = ri + 1
            /\ UNCHANGED <<rpc, rop, ret, tick_hdr>>
    /\ UNCHANGED <<capacity, _buf, _index, frame, rk, frame_pub,
                   shm, slot_pub>>

\* the keys in the order of the dict, unsorted
ListResult_unsorted(d) == [k \in DOMAIN d |-> d[k].name]

\* list_signals, line 84
ListResult(d) == Sorted(Keys(d))

\* an index that is built once and then kept
Rebuilt_once(old, new) == IF old = <<>> THEN new ELSE old

\* _rebuild_index, line 80: self._index = idx
Rebuilt(old, new) == new

\* _rebuild_index, line 80, and the return to its caller
ScanDone ==
    /\ rpc = "scan"
    /\ ri >= capacity
    /\ _index' = Rebuilt(_index, idx)
    /\ idx' = <<>>
    /\ ri' = 0
    /\ IF rop \in {"read_frame", "tick"}
       THEN /\ rpc' = "read"
            /\ UNCHANGED <<rop, ret>>
       ELSE /\ rpc' = "idle"
            /\ rop' = None
            /\ ret' = IF rop = "connect" THEN Returned("connect")
                      ELSE [Returned("list_signals") EXCEPT
                                !.names = ListResult(Rebuilt(_index, idx))]
    /\ UNCHANGED <<capacity, _buf, frame, frame_pub, rk, tick_hdr, shm, slot_pub>>

\* read_frame, lines 98-102: one iteration
ReadSlot ==
    /\ rpc = "read"
    /\ rk < Len(_index)
    /\ LET e == _index[rk + 1]
       IN  /\ frame' = FnSet(frame, e.name, ViewSlot(e.i).value)
           /\ frame_pub' = FnSet(frame_pub, e.name,
                                 IF e.i < NSlots(shm) THEN slot_pub[e.i + 1] ELSE 0)
    /\ rk' = rk + 1
    /\ UNCHANGED <<capacity, _buf, _index, rpc, rop, idx, ri, tick_hdr,
                   ret, shm, slot_pub>>

\* a tick that reads the header after the frame
TickHeader_late(at_entry, at_return) == at_return

\* _on_tick, lines 300-301: read_header is called before read_frame
TickHeader(at_entry, at_return) == at_entry

\* a tick that drops a frame whose counter is the one of the tick before
TickOutcome_dedupe(prev, r) ==
    IF prev.n > 0 /\ prev.counter = r.counter THEN Skipped("tick") ELSE r

\* _on_tick, lines 306-310: every frame read goes to the plots, with its
\* counter as x, whatever the tick before returned
TickOutcome(prev, r) == r

\* read_frame, line 104; for a tick, the frame and counter handed to the plots
ReadDone ==
    /\ rpc = "read"
    /\ rk >= Len(_index)
    /\ rpc' = "idle"
    /\ rop' = None
    /\ LET hdr == TickHeader(tick_hdr, <<shm.header.counter, shm.header.timestamp>>)
           r == [Returned(rop) EXCEPT !.frame = frame, !.pubs = frame_pub,
                                      !.counter = IF rop = "tick" THEN hdr[1] ELSE 0,
                                      !.ts = IF rop = "tick" THEN hdr[2] ELSE 0]
       IN  ret' = IF rop = "tick" THEN TickOutcome(last_poll, r) ELSE r
    /\ frame' = <<>>
    /\ frame_pub' = <<>>
    /\ rk' = 0
    /\ tick_hdr' = <<0, 0>>
    /\ UNCHANGED <<capacity, _buf, _index, idx, ri, shm, slot_pub>>

(***************************************************************************)
(* The writer alone                                                        *)
(***************************************************************************)
InitWriter ==
    /\ IS_WINDOWS \in BOOLEAN
    /\ shm = NoMapping
    /\ slot_pub = <<>>
    /\ WriterInit
    /\ ReaderInit
    /\ PlotInit
    /\ CodecInit
    /\ WindowInit
    /\ TelemetryInit
    /\ kobj = None
    /\ capacity = NumSignals

WriterIdle == UNCHANGED <<IS_WINDOWS, rvars, hvars, pvars, cvars, gvars, kvars>>

NextWriter ==
    \/ Start /\ WriterIdle
    \/ InitHeader /\ WriterIdle
    \/ InitSlot /\ WriterIdle
    \/ Register /\ WriterIdle
    \/ counter < MaxPublish /\ PublishBegin /\ WriterIdle
    \/ PublishSlot /\ WriterIdle
    \/ PublishHeader /\ WriterIdle
    \/ Interrupt /\ WriterIdle

SpecWriter == InitWriter /\ [][NextWriter]_vars

(***************************************************************************)
(* One writer and one reader on the same tag                               *)
(***************************************************************************)
ConcCsv == { c \in CsvInputs : c.kind = "none" \/ Len(c.rows) = 2 }

Init ==
    /\ IS_WINDOWS \in BOOLEAN
    /\ shm = NoMapping
    /\ slot_pub = <<>>
    /\ WriterInit
    /\ cfg.csv \in ConcCsv
    /\ cfg.capacity = NumSignals
    /\ ReaderInit
    /\ PlotInit
    /\ CodecInit
    /\ WindowInit
    /\ TelemetryInit
    /\ kobj = None
    /\ capacity = NumSignals

ReaderIdle == UNCHANGED <<IS_WINDOWS, wvars, hvars, pvars, cvars, gvars, kvars>>

Next ==
    \/ Start /\ WriterIdle
    \/ InitHeader /\ WriterIdle
    \/ InitSlot /\ WriterIdle
    \/ Register /\ WriterIdle
    \/ counter < MaxConcPublish /\ PublishBegin /\ WriterIdle
    \/ PublishSlot /\ WriterIdle
    \/ PublishHeader /\ WriterIdle
    \/ Interrupt /\ WriterIdle
    \/ Connect /\ ReaderIdle
    \/ Disconnect /\ ReaderIdle
    \/ Tick /\ ReaderIdle
    \/ ScanSlot /\ ReaderIdle
    \/ ScanDone /\ ReaderIdle
    \/ ReadSlot /\ ReaderIdle
    \/ ReadDone /\ ReaderIdle

Spec == Init /\ [][Next]_vars

\* the writer's loop runs, the timer keeps firing, a call runs to its end; a
\* KeyboardInterrupt, connect and disconnect happen or not
WriterRun ==
    \/ Start \/ InitHeader \/ InitSlot \/ Register
    \/ counter < MaxConcPublish /\ PublishBegin
    \/ PublishSlot \/ PublishHeader

ReaderRun == ScanSlot \/ ScanDone \/ ReadSlot \/ ReadDone

FairSpec ==
    /\ Spec
    /\ WF_vars(WriterRun /\ WriterIdle)
    /\ WF_vars(ReaderRun /\ ReaderIdle)
    /\ SF_vars(Tick /\ ReaderIdle)

(***************************************************************************)
(* The same, with the history of the ticks                                 *)
(***************************************************************************)
\* a step of the writer: a write to the region ends the run of quiet ticks
WriterPoll ==
    /\ UNCHANGED <<IS_WINDOWS, rvars, index_at_connect, pvars, cvars, gvars, kvars>>
    /\ last_poll' = IF shm' # shm
                     THEN [NoPoll EXCEPT !.dirty = TRUE]
                     ELSE last_poll

\* a step of the reader: a tick that begins, a tick that returns, or another
ReaderPoll ==
    /\ UNCHANGED <<IS_WINDOWS, wvars, index_at_connect, pvars, cvars, gvars, kvars>>
    /\ last_poll' =
          IF rpc = "idle" /\ rop' = "tick"
          THEN [last_poll EXCEPT !.dirty = FALSE]
          ELSE IF rop = "tick" /\ rpc' = "idle" /\ ret'.err = None
          THEN IF last_poll.dirty
               THEN NoPoll
               ELSE [n |-> Min(last_poll.n + 1, 2), dirty |-> FALSE,
                     counter |-> ret'.counter, frame |-> ret'.frame]
          ELSE IF rop = "tick" /\ rpc' = "idle"
          THEN NoPoll
          ELSE last_poll

NextPoll ==
    \/ Start /\ WriterPoll
    \/ InitHeader /\ WriterPoll
    \/ InitSlot /\ WriterPoll
    \/ Register /\ WriterPoll
    \/ counter < MaxConcPublish /\ PublishBegin /\ WriterPoll
    \/ PublishSlot /\ WriterPoll
    \/ PublishHeader /\ WriterPoll
    \/ Interrupt /\ WriterPoll
    \/ Connect /\ ReaderPoll
    \/ Tick /\ ReaderPoll
    \/ ScanSlot /\ ReaderPoll
    \/ ScanDone /\ ReaderPoll
    \/ ReadSlot /\ ReaderPoll
    \/ ReadDone /\ ReaderPoll

SpecPoll == Init /\ [][NextPoll]_vars

(***************************************************************************)
(* A reader on a region written by another writer of the wire format       *)
(***************************************************************************)
NameA == <<97>>                      \* "a"
NameB == <<98>>                      \* "b"

\* the process that wrote the region keeps its handle on it and writes nothing
RegionHeld ==
    /\ cfg = [capacity |-> 0, csv |-> [kind |-> "none", fieldnames |-> <<>>, rows |-> <<>>]]
    /\ wpc = "start"
    /\ werr = None
    /\ buf = IF shm.mapped THEN "open" ELSE None
    /\ use_csv = FALSE
    /\ csv_rows = <<>>
    /\ counter = 0
    /\ row_idx = 0
    /\ values = <<>>
    /\ wi = 0
    /\ now = 0

SlotChoices ==
    { SlotRecord(<<>>, 0, FALSE),
      SlotRecord(NameA, 1, TRUE),
      SlotRecord(NameB, 2, TRUE),
      SlotRecord(NameA, 3, TRUE),
      [name |-> _encode_name(NameB), value |-> 4, flags |-> 2, pad |-> 7],
      [name |-> <<0, 97>> \o Zeros(SLOT_NAME_BYTES - 2), value |-> 5, flags |-> 3, pad |-> 0],
      [name |-> <<255>> \o Zeros(SLOT_NAME_BYTES - 1), value |-> 6, flags |-> 1, pad |-> 0] }

HeaderChoices(n) ==
    { HeaderRecord(4, 9, n),
      ZeroHeader,
      [HeaderRecord(4, 9, n) EXCEPT !.magic = <<86, 83, 77, 50>>] }   \* b"VSM2"

\* the regions read: every slot table under a valid header, read through a
\* view of its size; the slot table of _init_mapping under each header and
\* through each view
RegionInputs ==
    UNION { { [region |-> [mapped |-> TRUE, header |-> HeaderRecord(4, 9, n), slots |-> t],
               requested |-> n] : t \in [1..n -> SlotChoices] }
            \cup
            { [region |-> [mapped |-> TRUE, header |-> h,
                           slots |-> [k \in 1..n |-> SlotRecord(<<>>, 0, FALSE)]],
               requested |-> c] : c \in 0..MaxRegionCap, h \in HeaderChoices(n) }
            : n \in 0..MaxRegionCap }
    \cup
    { [region |-> NoMapping, requested |-> c] : c \in 0..MaxRegionCap }

InitRegion ==
    /\ IS_WINDOWS = TRUE
    /\ \E inp \in RegionInputs :
          /\ shm = inp.region
          /\ capacity = inp.requested
    /\ RegionHeld
    /\ slot_pub = [k \in 1..NSlots(shm) |-> 0]
    /\ ReaderInit
    /\ PlotInit
    /\ CodecInit
    /\ WindowInit
    /\ TelemetryInit
    /\ kobj = None

NextRegion ==
    \/ Connect /\ ReaderIdle
    \/ Disconnect /\ ReaderIdle
    \/ ReadHeader /\ ReaderIdle
    \/ ListSignals /\ ReaderIdle
    \/ ReadFrame /\ ReaderIdle
    \/ Tick /\ ReaderIdle
    \/ ScanSlot /\ ReaderIdle
    \/ ScanDone /\ ReaderIdle
    \/ ReadSlot /\ ReaderIdle
    \/ ReadDone /\ ReaderIdle

SpecRegion == InitRegion /\ [][NextRegion]_vars

(***************************************************************************)
(* A reader on a region whose writer registers and retires signals while   *)
(* the reader is between two operations                                    *)
(***************************************************************************)
InitRegister ==
    /\ IS_WINDOWS = TRUE
    /\ \E n \in 1..MaxRegisterCap :
          /\ shm = [mapped |-> TRUE, header |-> HeaderRecord(0, 0, n),
                    slots |-> [k \in 1..n |-> SlotRecord(<<>>, 0, FALSE)]]
          /\ capacity = n
    /\ RegionHeld
    /\ slot_pub = [k \in 1..NSlots(shm) |-> 0]
    /\ ReaderInit
    /\ PlotInit
    /\ CodecInit
    /\ WindowInit
    /\ TelemetryInit
    /\ kobj = None

\* _write_slot(buf, idx, name, value, active) of the writer, lines 40-43
WriteSlot ==
    /\ rpc = "idle"
    /\ \E i \in 0..(NSlots(shm) - 1), name \in {<<>>, NameA, NameB}, active \in BOOLEAN :
          shm' = [shm EXCEPT !.slots[i + 1] = SlotRecord(name, 0, active)]
    /\ UNCHANGED <<IS_WINDOWS, slot_pub, wvars, rvars, hvars, pvars, cvars, gvars, kvars>>

RecordConnect ==
    /\ UNCHANGED <<IS_WINDOWS, wvars, last_poll, pvars, cvars, gvars, kvars>>
    /\ index_at_connect' = IF rop = "connect" /\ ret'.op = "connect" /\ ret'.err = None
                           THEN Keys(_index')
                           ELSE index_at_connect

NextRegister ==
    \/ WriteSlot
    \/ Connect /\ ReaderIdle
    \/ Disconnect /\ ReaderIdle
    \/ ListSignals /\ ReaderIdle
    \/ ReadFrame /\ ReaderIdle
    \/ ScanSlot /\ ReaderIdle
    \/ ScanDone /\ RecordConnect
    \/ ReadSlot /\ ReaderIdle
    \/ ReadDone /\ ReaderIdle

SpecRegister == InitRegister /\ [][NextRegister]_vars

(***************************************************************************)
(* Round trips through the wire format                                     *)
(***************************************************************************)
\* names: a run of "a" followed by nothing, by one- and two-byte characters
\* or by a NUL character
NameTails == { <<>>, <<98>>, <<233>>, <<233, 98>>, <<0, 98>> }
CodecNames == { [k \in 1..n |-> 97] \o t : n \in 0..MaxNameLen, t \in NameTails }

\* header fields the writer packs: counters and capacities of one to four bytes
CodecCounters == {0, 1, 255, 256, 65536, 2147483647}
CodecCapacities == {0, NumSignals, 1024, 16777216}

InitCodec ==
    /\ IS_WINDOWS = TRUE
    /\ shm = NoMapping
    /\ slot_pub = <<>>
    /\ RegionHeld
    /\ capacity = 0
    /\ ReaderInit
    /\ PlotInit
    /\ cpc = "input"
    /\ cin \in [name : CodecNames, version : {VERSION}, counter : CodecCounters,
                 timestamp : {0}, capacity : CodecCapacities]
    /\ cenc = NoCodec
    /\ cdec = NoCodec
    /\ WindowInit
    /\ TelemetryInit
    /\ kobj = None

\* _encode_name (writer, lines 35-37) and the pack_into of the header (line 149)
Encode ==
    /\ cpc = "input"
    /\ cenc' = [name |-> _encode_name(cin.name),
                header |-> PackHeader(MAGIC, cin.version, cin.counter,
                                      cin.timestamp, cin.capacity)]
    /\ cpc' = "encoded"
    /\ UNCHANGED <<cin, cdec>>

\* _decode_name (provider, lines 21-23) and the unpack_from of the header
\* (provider, lines 42 and 65)
Decode ==
    /\ cpc = "encoded"
    /\ cdec' = [name |-> _decode_name(cenc.name), header |-> UnpackHeader(cenc.header)]
    /\ cpc' = "decoded"
    /\ UNCHANGED <<cin, cenc>>

CodecOnly == UNCHANGED <<IS_WINDOWS, mvars, wvars, rvars, hvars, pvars, gvars, kvars>>

NextCodec ==
    \/ Encode /\ CodecOnly
    \/ Decode /\ CodecOnly

SpecCodec == InitCodec /\ [][NextCodec]_vars

(***************************************************************************)
(* PlotWidget: the history of the tracked signals                          *)
(***************************************************************************)
\* min_val and max_val are Optional[float]: <<>> is None and <<v>> is v.
\* A statistic that follows the latest value:
NewMin_latest(min_val, v) == <<v>>

\* tick, lines 299-300
NewMin(min_val, v) == IF min_val = <<>> \/ v < min_val[1] THEN <<v>> ELSE min_val

\* tick, lines 302-303
NewMax(max_val, v) == IF max_val = <<>> \/ v > max_val[1] THEN <<v>> ELSE max_val

\* l[start:] of Python for a list l and any integer start
SliceFrom(l, start) ==
    LET n == Len(l)
        from == IF start < 0
                THEN (IF n + start < 0 THEN 0 ELSE n + start)
                ELSE Min(start, n)
    IN  SubSeq(l, from + 1, n)

\* an eviction that keeps the oldest points
Trimmed_oldest(l, max_points) ==
    IF Len(l) > max_points THEN SubSeq(l, 1, max_points) ELSE l

\* tick, lines 314-316: l[-max_points:] if the list is longer than max_points
Trimmed(l, max_points) ==
    IF Len(l) > max_points THEN SliceFrom(l, 0 - max_points) ELSE l

TrackNames == { _tracks[k].signal_name : k \in DOMAIN _tracks }

\* SignalTrack(signal_name, series, [], [], color, True), line 229
NewTrack(signal_name) ==
    [signal_name |-> signal_name, x |-> <<>>, y |-> <<>>,
     min_val |-> <<>>, max_val |-> <<>>]

NewSeen == [pts |-> <<>>, ms |-> {}]

PlotNames == {NameA, NameB}

\* the frames handed to tick: some of the names, each with a value; the
\* value of "a" varies from frame to frame and the value of "b" does not
PlotFrames ==
    { f \in UNION { [S -> 0..MaxY] : S \in SUBSET PlotNames } :
        NameB \in DOMAIN f => f[NameB] = MaxY }

\* a flag that is also raised by a value equal to an extremum
StatsChanged_ties(tr, v) ==
    \/ tr.min_val = <<>> \/ v <= tr.min_val[1]
    \/ tr.max_val = <<>> \/ v >= tr.max_val[1]

\* tick, lines 298-304: `changed` is set where min_val or max_val is assigned
StatsChanged(tr, v) ==
    \/ tr.min_val = <<>> \/ v < tr.min_val[1]
    \/ tr.max_val = <<>> \/ v > tr.max_val[1]

\* an add_signal that starts the track of the name afresh
add_signal_reset ==
    /\ ppc = "idle"
    /\ \E signal_name \in PlotNames :
          /\ _tracks' = Append(SelectSeq(_tracks, LAMBDA tr : tr.signal_name # signal_name),
                               NewTrack(signal_name))
          /\ seen' = FnSet(seen, signal_name, NewSeen)
    /\ pcall' = "add_signal"
    /\ UNCHANGED <<ppc, pk, pframe, px, pmax, pchanged, nticks>>

\* add_signal, lines 211-230
add_signal ==
    /\ ppc = "idle"
    /\ \E signal_name \in PlotNames :
          IF signal_name \in TrackNames
          THEN UNCHANGED <<_tracks, seen>>
          ELSE /\ _tracks' = Append(_tracks, NewTrack(signal_name))
               /\ seen' = FnSet(seen, signal_name, NewSeen)
    /\ pcall' = "add_signal"
    /\ UNCHANGED <<ppc, pk, pframe, px, pmax, pchanged, nticks>>

\* self._tracks.pop(signal_name, None), line 241
Popped(tracks, signal_name) ==
    SelectSeq(tracks, LAMBDA tr : tr.signal_name # signal_name)

\* remove_signal, lines 240-247
remove_signal ==
    /\ ppc = "idle"
    /\ \E signal_name \in PlotNames :
          /\ _tracks' = Popped(_tracks, signal_name)
          /\ seen' = [n \in (DOMAIN seen) \ {signal_name} |-> seen[n]]
    /\ pcall' = "remove_signal"
    /\ UNCHANGED <<ppc, pk, pframe, px, pmax, pchanged, nticks>>

\* the tracks left when remove_signal has been called for each of the names
RECURSIVE PoppedAll(_, _)
PoppedAll(tracks, names) ==
    IF names = <<>> THEN tracks
    ELSE PoppedAll(Popped(tracks, Head(names)), Tail(names))

\* clear_signals, lines 249-254: remove_signal for every key of _tracks
clear_signals ==
    /\ ppc = "idle"
    /\ _tracks' = PoppedAll(_tracks, [k \in DOMAIN _tracks |-> _tracks[k].signal_name])
    /\ seen' = <<>>
    /\ pcall' = "clear_signals"
    /\ UNCHANGED <<ppc, pk, pframe, px, pmax, pchanged, nticks>>

\* tick is called, line 279; x_value is the number of the call
PlotTick ==
    /\ ppc = "idle"
    /\ nticks < MaxTicks
    /\ \E f \in PlotFrames, max_points \in 0..MaxPoints :
          /\ pframe' = f
          /\ pmax' = max_points
    /\ px' = nticks + 1
    /\ nticks' = nticks + 1
    /\ pk' = 1
    /\ ppc' = "loop"
    /\ pcall' = "tick"
    /\ UNCHANGED <<_tracks, pchanged, seen>>

\* lines 292-293: a track whose signal is not in the frame is passed over
PlotSkip ==
    /\ ppc = "loop"
    /\ pk <= Len(_tracks)
    /\ _tracks[pk].signal_name \notin DOMAIN pframe
    /\ pk' = pk + 1
    /\ UNCHANGED <<_tracks, ppc, pframe, px, pmax, pchanged, pcall, nticks, seen>>

\* lines 295-312: the statistics, then the append
PlotObserve ==
    /\ ppc = "loop"
    /\ pk <= Len(_tracks)
    /\ _tracks[pk].signal_name \in DOMAIN pframe
    /\ LET tr == _tracks[pk]
           v == pframe[tr.signal_name]
       IN  /\ _tracks' = [_tracks EXCEPT ![pk] =
                            [tr EXCEPT !.min_val = NewMin(tr.min_val, v),
                                       !.max_val = NewMax(tr.max_val, v),
                                       !.x = Append(tr.x, px),
                                       !.y = Append(tr.y, v)]]
           /\ pchanged' = StatsChanged(tr, v)
           /\ seen' = [seen EXCEPT ![tr.signal_name] =
                          [pts |-> Append(@.pts, <<px, v>>), ms |-> @.ms \cup {pmax}]]
    /\ ppc' = "trim"
    /\ UNCHANGED <<pk, pframe, px, pmax, pcall, nticks>>

\* lines 314-316: the eviction, and on to the next track, whose iteration
\* starts with changed = False
PlotTrim ==
    /\ ppc = "trim"
    /\ _tracks' = [_tracks EXCEPT ![pk] =
                      [@ EXCEPT !.x = Trimmed(@, pmax), !.y = Trimmed(@, pmax)]]
    /\ pk' = pk + 1
    /\ ppc' = "loop"
    /\ pchanged' = FALSE
    /\ UNCHANGED <<pframe, px, pmax, pcall, nticks, seen>>

\* the loop is over and tick returns (the axis ranges of lines 328-349 are
\* not modelled)
PlotTickEnd ==
    /\ ppc = "loop"
    /\ pk > Len(_tracks)
    /\ ppc' = "idle"
    /\ pk' = 0
    /\ pframe' = <<>>
    /\ px' = 0
    /\ pmax' = 0
    /\ UNCHANGED <<_tracks, pchanged, pcall, nticks, seen>>

InitPlot ==
    /\ IS_WINDOWS = TRUE
    /\ shm = NoMapping
    /\ slot_pub = <<>>
    /\ RegionHeld
    /\ capacity = 0
    /\ ReaderInit
    /\ PlotInit
    /\ CodecInit
    /\ WindowInit
    /\ TelemetryInit
    /\ kobj = None

PlotOnly == UNCHANGED <<IS_WINDOWS, mvars, wvars, rvars, hvars, cvars, gvars, kvars>>

NextPlot ==
    \/ add_signal /\ PlotOnly
    \/ remove_signal /\ PlotOnly
    \/ clear_signals /\ PlotOnly
    \/ PlotTick /\ PlotOnly
    \/ PlotSkip /\ PlotOnly
    \/ PlotObserve /\ PlotOnly
    \/ PlotTrim /\ PlotOnly
    \/ PlotTickEnd /\ PlotOnly

SpecPlot == InitPlot /\ [][NextPlot]_vars

(***************************************************************************)
(* VoroSimMainWindow: streaming control over one provider and two plots,   *)
(* beside writers that create the region, publish to it and are restarted  *)
(***************************************************************************)
\* WinMmapProvider(tagname, capacity=1024), line 340, on the scale of the
\* model: the capacity of the smallest region a writer makes
PROVIDER_CAPACITY == NumSignals

\* max_points of tick when the caller passes none, line 279
DEFAULT_MAX_POINTS == 1000

\* the region when run_emulator enters its loop, lines 93-104
WriterRegion(cap) ==
    [mapped |-> TRUE, header |-> HeaderRecord(0, 0, cap),
     slots |-> [k \in 1..cap |-> IF k <= NumSignals
                                  THEN SlotRecord(base_signals[k], 0, TRUE)
                                  ELSE InitialSlot]]

WindowRegions == { WriterRegion(cap) : cap \in NumSignals..(NumSignals + MaxExtraCap) }

\* the signals a configuration puts on the two plots
WindowConfigs ==
    { [top |-> <<base_signals[3]>>, bottom |-> <<base_signals[3], base_signals[5]>>],
      [top |-> <<base_signals[5]>>, bottom |-> <<>>] }

\* import_config, lines 197-209: clear_signals, then add_signal for each name
import_config(names) == [k \in DOMAIN names |-> NewTrack(names[k])]

\* one iteration of the loop of tick for a track whose signal is in the frame
ObservedTrack(tr, v, x, max_points) ==
    [tr EXCEPT !.min_val = NewMin(tr.min_val, v),
               !.max_val = NewMax(tr.max_val, v),
               !.x = Trimmed(Append(tr.x, x), max_points),
               !.y = Trimmed(Append(tr.y, v), max_points)]

\* PlotWidget.tick(frame, x_value, max_points) from call to return
TickTracks(tracks, f, x, max_points) ==
    [k \in DOMAIN tracks |->
        IF tracks[k].signal_name \in DOMAIN f
        THEN ObservedTrack(tracks[k], f[tracks[k].signal_name], x, max_points)
        ELSE tracks[k]]

\* a tick that runs whether or not streaming was started
TickGuard_connected == provider # None /\ is_connected

\* _on_tick, lines 293-297: the conditions under which the tick goes on to read
TickGuard == is_running /\ provider # None /\ is_connected

\* a handler that plots zeros when the read failed
AfterFailedRead_zeros(tracks) ==
    TickTracks(tracks, [n \in {tracks[k].signal_name : k \in DOMAIN tracks} |-> 0],
               0, DEFAULT_MAX_POINTS)

\* _on_tick, lines 302-304: the exception is logged and the handler returns
AfterFailedRead(tracks) == tracks

\* an x axis of wall-clock time
XValue_ts(c, ts) == ts

\* _on_tick, line 307: x = float(counter); the conversion is exact for every
\* counter below 2^53, and the writer counts its publishes from 0
XValue(c, ts) == c

\* the main window after construction, beside a region that a writer has or
\* has not made, and a TelemetryWorker after construction
InitWindowObjects ==
    /\ IS_WINDOWS \in BOOLEAN
    /\ shm \in {NoMapping} \cup WindowRegions
    /\ slot_pub = [k \in 1..NSlots(shm) |-> 0]
    /\ RegionHeld
    /\ capacity = PROVIDER_CAPACITY
    /\ ReaderInit
    /\ PlotInit
    /\ CodecInit
    /\ WindowInit
    /\ TelemetryInit

InitWindow ==
    /\ InitWindowObjects
    /\ kobj = None

WindowRest == UNCHANGED <<IS_WINDOWS, wvars, hvars, pvars, cvars, kvars>>
RegionRest == UNCHANGED <<shm, slot_pub>>
ReaderRest == UNCHANGED rvars

\* _on_target_changed, lines 327-349, called by the constructor at line 64:
\* the provider is made and connect is entered; the combo box has one item,
\* so currentIndexChanged never calls the handler again
OnTargetChanged ==
    /\ gpc = "init"
    /\ Connect
    /\ IF rpc' = "idle"
       THEN provider' = None /\ gpc' = "idle"
       ELSE provider' = "WinMmapProvider" /\ gpc' = "target_connect"
    /\ UNCHANGED <<is_running, timer, _plot_paused, _resume_timer, closed,
                   plot_top, plot_bottom, wticks, steady>>
    /\ WindowRest

\* the rest of start_stream, lines 151-159, once the provider is connected
Started ==
    /\ is_running' = TRUE
    /\ timer' = TRUE

\* start_stream, lines 134-159, entered with is_running False
StartBody ==
    IF provider = None
    THEN /\ gpc' = "idle"
         /\ UNCHANGED <<is_running, timer>>
         /\ ReaderRest /\ RegionRest
    ELSE IF ~is_connected
    THEN /\ Connect
         /\ gpc' = IF rpc' = "idle" THEN "idle" ELSE "start_connect"
         /\ UNCHANGED <<is_running, timer>>
    ELSE /\ Started
         /\ gpc' = "idle"
         /\ ReaderRest /\ RegionRest

\* start_stream, lines 134-159
start_stream ==
    /\ gpc = "idle"
    /\ ~closed
    /\ IF is_running
       THEN UNCHANGED <<gpc, is_running, timer>> /\ ReaderRest /\ RegionRest
       ELSE StartBody
    /\ UNCHANGED <<provider, _plot_paused, _resume_timer, closed, plot_top,
                   plot_bottom, wticks, steady>>
    /\ WindowRest

\* stop_stream, lines 161-177
stop_stream ==
    /\ gpc = "idle"
    /\ ~closed
    /\ timer' = FALSE
    /\ is_running' = FALSE
    /\ \E disconnect \in BOOLEAN :
          IF disconnect /\ provider # None /\ is_connected
          THEN Disconnect /\ steady' = FALSE
          ELSE ReaderRest /\ RegionRest /\ UNCHANGED steady
    /\ UNCHANGED <<provider, _plot_paused, _resume_timer, gpc, closed, plot_top,
                   plot_bottom, wticks>>
    /\ WindowRest

\* _load_configuration_from_path, lines 80-132, for a file that parses: the
\* stream is stopped without a disconnect, the plots are rebuilt, and the
\* stream is started again if it was running
load_configuration ==
    /\ gpc = "idle"
    /\ ~closed
    /\ \E c \in WindowConfigs :
          /\ plot_top' = import_config(c.top)
          /\ plot_bottom' = import_config(c.bottom)
    /\ IF is_running
       THEN StartBody
       ELSE UNCHANGED <<gpc, is_running, timer>> /\ ReaderRest /\ RegionRest
    /\ UNCHANGED <<provider, _plot_paused, _resume_timer, closed, wticks, steady>>
    /\ WindowRest

\* eventFilter and _pause_plotting, lines 179-193: a move or resize event
move_or_resize ==
    /\ gpc = "idle"
    /\ ~closed
    /\ timer' = FALSE
    /\ _plot_paused' = TRUE
    /\ _resume_timer' = TRUE
    /\ UNCHANGED <<provider, is_running, gpc, closed, plot_top, plot_bottom,
                   wticks, steady>>
    /\ ReaderRest /\ RegionRest /\ WindowRest

\* _resume_plotting, lines 184-187, on the timeout of the single-shot timer
_resume_plotting ==
    /\ gpc = "idle"
    /\ _resume_timer
    /\ _resume_timer' = FALSE
    /\ timer' = IF _plot_paused /\ is_running THEN TRUE ELSE timer
    /\ UNCHANGED <<provider, is_running, _plot_paused, gpc, closed, plot_top,
                   plot_bottom, wticks, steady>>
    /\ ReaderRest /\ RegionRest /\ WindowRest

\* closeEvent, lines 417-423
closeEvent ==
    /\ gpc = "idle"
    /\ ~closed
    /\ closed' = TRUE
    /\ IF provider # None
       THEN Disconnect /\ steady' = (steady /\ ~is_connected)
       ELSE ReaderRest /\ RegionRest /\ UNCHANGED steady
    /\ UNCHANGED <<provider, is_running, timer, _plot_paused, _resume_timer, gpc,
                   plot_top, plot_bottom, wticks>>
    /\ WindowRest

\* _on_tick, lines 292-301, on a timeout of self.timer: the guards, then
\* read_header and the entry into read_frame
_on_tick ==
    /\ gpc = "idle"
    /\ timer
    /\ wticks < MaxWinTicks
    /\ wticks' = wticks + 1
    /\ IF TickGuard
       THEN Tick /\ gpc' = IF rpc' = "idle" THEN "idle" ELSE "tick"
       ELSE ReaderRest /\ RegionRest /\ UNCHANGED gpc
    /\ UNCHANGED <<provider, is_running, timer, _plot_paused, _resume_timer, closed,
                   plot_top, plot_bottom, steady>>
    /\ WindowRest

\* the handler that called the provider goes on when the call returns or raises
Continue ==
    IF rpc' # "idle" THEN UNCHANGED gvars
    ELSE /\ provider' = IF gpc = "target_connect" /\ ret'.err # None THEN None ELSE provider
         /\ IF gpc = "start_connect" /\ ret'.err = None
            THEN Started
            ELSE UNCHANGED <<is_running, timer>>
         /\ gpc' = IF gpc = "tick" /\ ret'.err = None THEN "plot" ELSE "idle"
         /\ plot_top' = IF gpc = "tick" /\ ret'.err # None
                         THEN AfterFailedRead(plot_top) ELSE plot_top
         /\ plot_bottom' = IF gpc = "tick" /\ ret'.err # None
                            THEN AfterFailedRead(plot_bottom) ELSE plot_bottom
         /\ UNCHANGED <<_plot_paused, _resume_timer, closed, wticks, steady>>

\* _on_tick, lines 306-310: both plots get the frame, with the counter as x
PlotFrame ==
    /\ gpc = "plot"
    /\ LET x == XValue(ret.counter, ret.ts)
       IN  /\ plot_top' = TickTracks(plot_top, ret.frame, x, DEFAULT_MAX_POINTS)
           /\ plot_bottom' = TickTracks(plot_bottom, ret.frame, x, DEFAULT_MAX_POINTS)
    /\ gpc' = "idle"
    /\ UNCHANGED <<provider, is_running, timer, _plot_paused, _resume_timer, closed,
                   wticks, steady>>
    /\ ReaderRest /\ RegionRest /\ WindowRest

\* the other variables of a writer that is not followed step by step
WriterRest ==
    UNCHANGED <<IS_WINDOWS, cfg, wpc, werr, use_csv, csv_rows, counter, row_idx,
                values, wi, now, rvars, hvars, pvars, cvars, kvars>>

\* one pass of the loop of run_emulator, lines 133-149, between two calls of
\* the provider: the five values, then the header with the next counter
WriterPublishes ==
    /\ rpc = "idle"
    /\ shm.mapped
    /\ shm.header.magic = MAGIC
    /\ shm.header.counter < MaxWinCounter
    /\ \E t \in 0..MaxSynthT :
          shm' = [shm EXCEPT
                    !.slots = [k \in DOMAIN shm.slots |->
                                 IF k <= NumSignals
                                 THEN PublishedSlot(shm.slots[k], SynthValues(t)[k])
                                 ELSE shm.slots[k]],
                    !.header = HeaderRecord(NextCounter(shm.header.counter),
                                            50 + NextCounter(shm.header.counter),
                                            shm.header.capacity)]
    /\ slot_pub' = [k \in DOMAIN slot_pub |->
                      IF k <= NumSignals THEN shm.header.counter + 1 ELSE slot_pub[k]]
    /\ UNCHANGED <<buf, gvars>>
    /\ WriterRest

\* the writer is stopped and run again, lines 78-104, while no view keeps the
\* old mapping alive: a new region, of any capacity, with counter 0
WriterRestarts ==
    /\ rpc = "idle"
    /\ ~(provider # None /\ is_connected)
    /\ \E r \in WindowRegions :
          /\ r # shm
          /\ shm' = r
          /\ slot_pub' = [k \in 1..NSlots(r) |-> 0]
    /\ buf' = "open"
    /\ steady' = FALSE
    /\ UNCHANGED <<provider, is_running, timer, _plot_paused, _resume_timer, gpc,
                   closed, plot_top, plot_bottom, wticks>>
    /\ WriterRest

NextWindow ==
    \/ OnTargetChanged
    \/ start_stream
    \/ stop_stream
    \/ load_configuration
    \/ move_or_resize
    \/ _resume_plotting
    \/ closeEvent
    \/ _on_tick
    \/ ScanSlot /\ Continue /\ WindowRest
    \/ ScanDone /\ Continue /\ WindowRest
    \/ ReadSlot /\ Continue /\ WindowRest
    \/ ReadDone /\ Continue /\ WindowRest
    \/ PlotFrame
    \/ WriterPublishes
    \/ WriterRestarts

SpecWindow == InitWindow /\ [][NextWindow]_vars

(***************************************************************************)
(* TelemetryWorker: start_stream on the worker's thread, get_latest and    *)
(* stop_stream on the UI thread                                            *)
(***************************************************************************)
\* a lock that excludes nobody
LockFree_always(holder) == TRUE

\* threading.Lock, lines 25 and 46: `with self._lock` waits until no thread
\* holds the lock
LockFree(holder) == holder = None

\* a loop that does not look at the flag
LoopContinues_forever(running) == TRUE

\* line 42: while self._running
LoopContinues(running) == running

\* a finally block whose close lets its exception out
AfterClose_propagate(raised) == IF raised THEN "idle" ELSE "clear_shm"

\* lines 57-61: an exception of close() is swallowed
AfterClose(raised) == "clear_shm"

InitWorker ==
    /\ IS_WINDOWS = TRUE
    /\ shm = NoMapping
    /\ slot_pub = <<>>
    /\ RegionHeld
    /\ capacity = 0
    /\ ReaderInit
    /\ PlotInit
    /\ CodecInit
    /\ WindowInit
    /\ TelemetryInit
    /\ kobj = "TelemetryWorker"

WorkerOnly == UNCHANGED <<IS_WINDOWS, mvars, wvars, rvars, hvars, pvars, cvars, gvars, kobj>>
UiLocals == <<upc, ut, us, got, kcall>>
Latest == <<_latest_t, _latest_sample, pairs>>
Emitted == <<statuses, nfinished>>

\* start_stream is called, lines 29-30. While _running is true the call
\* returns at once. Otherwise the call is taken by the worker's thread, which
\* runs one call at a time.
worker_start_stream ==
    IF _running
    THEN /\ kcall' = "start_stream"
         /\ UNCHANGED <<_running, _shm, _lock, Latest, kpc, kt, ks, Emitted, ncalls,
                        nreads, upc, ut, us, got, stopped>>
    ELSE /\ kpc = "idle"
         /\ ncalls < MaxCalls
         /\ kpc' = "set_running"
         /\ ncalls' = ncalls + 1
         /\ UNCHANGED <<_running, _shm, _lock, Latest, kt, ks, Emitted, nreads,
                        UiLocals, stopped>>

\* lines 31-35
SetRunning ==
    /\ kpc = "set_running"
    /\ _running' = TRUE
    /\ statuses' = <<"opening shared memory">>
    /\ nfinished' = 0
    /\ kt' = 0
    /\ stopped' = FALSE
    /\ kpc' = "construct"
    /\ UNCHANGED <<_shm, _lock, Latest, ks, ncalls, nreads, UiLocals>>

\* line 36: AssettoCorsaSharedMemory() returns an object or raises
Construct ==
    /\ kpc = "construct"
    /\ \/ _shm' = "AssettoCorsaSharedMemory" /\ kpc' = "open"
       \/ _shm' = _shm /\ kpc' = "except"
    /\ UNCHANGED <<_running, _lock, Latest, kt, ks, Emitted, ncalls, nreads,
                   UiLocals, stopped>>

\* lines 37-40: open() returns, or raises
Open ==
    /\ kpc = "open"
    /\ \/ statuses' = Append(statuses, "streaming") /\ kpc' = "check"
       \/ statuses' = statuses /\ kpc' = "except"
    /\ UNCHANGED <<_running, _shm, _lock, Latest, kt, ks, nfinished, ncalls, nreads,
                   UiLocals, stopped>>

\* line 42
LoopCheck ==
    /\ kpc = "check"
    /\ IF LoopContinues(_running)
       THEN nreads < MaxReads /\ kpc' = "read"
       ELSE kpc' = "finally"
    /\ UNCHANGED <<_running, _shm, _lock, Latest, kt, ks, Emitted, ncalls, nreads,
                   UiLocals, stopped>>

\* lines 43-44: read() returns the next sample, or raises
Read ==
    /\ kpc = "read"
    /\ \/ /\ ks' = nreads + 1
          /\ nreads' = nreads + 1
          /\ kt' = kt + 1
          /\ kpc' = "lock"
       \/ /\ kpc' = "except"
          /\ UNCHANGED <<ks, nreads, kt>>
    /\ UNCHANGED <<_running, _shm, _lock, Latest, Emitted, ncalls, UiLocals, stopped>>

\* line 46
Acquire ==
    /\ kpc = "lock"
    /\ LockFree(_lock)
    /\ _lock' = "worker"
    /\ kpc' = "store_t"
    /\ UNCHANGED <<_running, _shm, Latest, kt, ks, Emitted, ncalls, nreads,
                   UiLocals, stopped>>

\* line 47
StoreT ==
    /\ kpc = "store_t"
    /\ _latest_t' = kt
    /\ kpc' = "store_s"
    /\ UNCHANGED <<_running, _shm, _lock, _latest_sample, pairs, kt, ks, Emitted,
                   ncalls, nreads, UiLocals, stopped>>

\* line 48
StoreS ==
    /\ kpc = "store_s"
    /\ _latest_sample' = ks
    /\ pairs' = pairs \cup {<<kt, ks>>}
    /\ kpc' = "unlock"
    /\ UNCHANGED <<_running, _shm, _lock, _latest_t, kt, ks, Emitted, ncalls, nreads,
                   UiLocals, stopped>>

\* the end of the with block, and the sleep of line 50
Release ==
    /\ kpc = "unlock"
    /\ _lock' = None
    /\ kpc' = "check"
    /\ UNCHANGED <<_running, _shm, Latest, kt, ks, Emitted, ncalls, nreads,
                   UiLocals, stopped>>

\* lines 52-54
Except ==
    /\ kpc = "except"
    /\ statuses' = Append(statuses, "error")
    /\ kpc' = "finally"
    /\ UNCHANGED <<_running, _shm, _lock, Latest, kt, ks, nfinished, ncalls, nreads,
                   UiLocals, stopped>>

\* lines 56-61: close() if there is an object
Finally ==
    /\ kpc = "finally"
    /\ IF _shm # None
       THEN \E raised \in BOOLEAN : kpc' = AfterClose(raised)
       ELSE kpc' = "clear_shm"
    /\ UNCHANGED <<_running, _shm, _lock, Latest, kt, ks, Emitted, ncalls, nreads,
                   UiLocals, stopped>>

\* line 63
ClearShm ==
    /\ kpc = "clear_shm"
    /\ _shm' = None
    /\ kpc' = "clear_running"
    /\ UNCHANGED <<_running, _lock, Latest, kt, ks, Emitted, ncalls, nreads,
                   UiLocals, stopped>>

\* line 64
ClearRunning ==
    /\ kpc = "clear_running"
    /\ _running' = FALSE
    /\ kpc' = "emit"
    /\ UNCHANGED <<_shm, _lock, Latest, kt, ks, Emitted, ncalls, nreads,
                   UiLocals, stopped>>

\* lines 65-67, and the return
EmitStopped ==
    /\ kpc = "emit"
    /\ statuses' = Append(statuses, "stopped")
    /\ nfinished' = nfinished + 1
    /\ stopped' = FALSE
    /\ kpc' = "idle"
    /\ UNCHANGED <<_running, _shm, _lock, Latest, kt, ks, ncalls, nreads, UiLocals>>

WorkerLocals == <<kpc, kt, ks, Emitted, ncalls, nreads>>

\* get_latest, line 25: the lock is taken
get_latest ==
    /\ upc = "idle"
    /\ LockFree(_lock)
    /\ _lock' = "ui"
    /\ upc' = "read_t"
    /\ kcall' = "get_latest"
    /\ UNCHANGED <<_running, _shm, Latest, WorkerLocals, ut, us, got, stopped>>

\* line 26: self._latest_t is read
GetT ==
    /\ upc = "read_t"
    /\ ut' = _latest_t
    /\ upc' = "read_s"
    /\ UNCHANGED <<_running, _shm, _lock, Latest, WorkerLocals, us, got, kcall, stopped>>

\* line 26: self._latest_sample is read
GetS ==
    /\ upc = "read_s"
    /\ us' = _latest_sample
    /\ upc' = "return"
    /\ UNCHANGED <<_running, _shm, _lock, Latest, WorkerLocals, ut, got, kcall, stopped>>

\* line 26: the lock is released and the pair returned
GetReturn ==
    /\ upc = "return"
    /\ got' = <<ut, us>>
    /\ _lock' = None
    /\ upc' = "idle"
    /\ UNCHANGED <<_running, _shm, Latest, WorkerLocals, ut, us, kcall, stopped>>

\* stop_stream, lines 69-70
worker_stop_stream ==
    /\ upc = "idle"
    /\ _running' = FALSE
    /\ stopped' = (stopped \/ _running)
    /\ kcall' = "stop_stream"
    /\ UNCHANGED <<_shm, _lock, Latest, WorkerLocals, upc, ut, us, got>>

NextWorker ==
    \/ worker_start_stream /\ WorkerOnly
    \/ SetRunning /\ WorkerOnly
    \/ Construct /\ WorkerOnly
    \/ Open /\ WorkerOnly
    \/ LoopCheck /\ WorkerOnly
    \/ Read /\ WorkerOnly
    \/ Acquire /\ WorkerOnly
    \/ StoreT /\ WorkerOnly
    \/ StoreS /\ WorkerOnly
    \/ Release /\ WorkerOnly
    \/ Except /\ WorkerOnly
    \/ Finally /\ WorkerOnly
    \/ ClearShm /\ WorkerOnly
    \/ ClearRunning /\ WorkerOnly
    \/ EmitStopped /\ WorkerOnly
    \/ get_latest /\ WorkerOnly
    \/ GetT /\ WorkerOnly
    \/ GetS /\ WorkerOnly
    \/ GetReturn /\ WorkerOnly
    \/ worker_stop_stream /\ WorkerOnly

SpecWorker == InitWorker /\ [][NextWorker]_vars

(***************************************************************************)
(* A run about one of the two objects that can be stopped: the main window *)
(* or a TelemetryWorker                                                    *)
(***************************************************************************)
InitStop ==
    /\ InitWindowObjects
    /\ kobj \in {"VoroSimMainWindow", "TelemetryWorker"}

NextStop ==
    \/ kobj = "VoroSimMainWindow" /\ NextWindow
    \/ kobj = "TelemetryWorker" /\ NextWorker

SpecStop == InitStop /\ [][NextStop]_vars

(***************************************************************************)
(* Properties                                                              *)
(***************************************************************************)
InLoop == wpc \in {"loop", "write_slots", "write_header"}

\* C1: while the writer holds the mapping, the header counter is 0 after
\* initialisation, every publish writes the previous counter plus one (the
\* first publish writes 1), and no other step of the writer changes it.
C1_CounterMonotonic ==
    [][ (buf = "open" /\ buf' = "open") =>
          IF wpc = "init_header"
          THEN shm'.header.counter = 0
          ELSE IF wpc = "write_header"
          THEN /\ shm'.header.counter = shm.header.counter + 1
               /\ shm'.header.counter >= 1
               /\ (counter = 0 => shm'.header.counter = 1)
          ELSE shm'.header.counter = shm.header.counter ]_vars

C1_Witness == buf = "open" /\ wpc = "loop" /\ shm.header.counter = 3

\* the list `values` of replay row j (from 0) of the configured file
FileValues(j) ==
    [c \in 1..NumSignals |->
        LET cells == cfg.csv.rows[j + 1]
            cols == { d \in 1..Len(cfg.csv.fieldnames) :
                         cfg.csv.fieldnames[d] = base_signals[c] }
        IN  IF cols = {} THEN 0
            ELSE LET d == CHOOSE d \in cols : TRUE
                 IN  IF d <= Len(cells) /\ cells[d].ok THEN cells[d].v ELSE 0]

\* C4: in replay mode with R rows, publish k (from 0) publishes row k mod R:
\* the values being written are those of row (counter mod R), the cursor is one
\* row further, wrapping to 0, and a completed publish left its row in the slots.
C4_ReplayOrder ==
    (use_csv /\ buf = "open" /\ InLoop) =>
        LET R == Len(cfg.csv.rows)
        IN  /\ R >= 1
            /\ wpc = "loop" => row_idx = counter % R
            /\ (wpc = "loop" /\ counter >= 1) =>
                   \A c \in 1..NumSignals :
                       shm.slots[c].value = FileValues((counter - 1) % R)[c]
            /\ wpc \in {"write_slots", "write_header"} =>
                   /\ values = FileValues(counter % R)
                   /\ row_idx = (counter + 1) % R
            /\ wpc = "write_header" =>
                   \A c \in 1..NumSignals :
                       shm.slots[c].value = FileValues(counter % R)[c]

\* the seventh publish of a three-row source writes row 0 for the third time
C4_Witness ==
    /\ use_csv /\ Len(cfg.csv.rows) = 3
    /\ wpc = "write_header" /\ counter = 6
    /\ values = <<11, 12, 13, 14, 15>>
    /\ shm.slots[1].value = 11

TickReturned == ret.op = "tick" /\ ret.err = None

\* C2 as amended: a tick never returns a slot value older than the counter it
\* returns: every value it read was written by the publish of that counter or
\* by a later one.
C2_NeverOlder ==
    /\ TickReturned => \A n \in DOMAIN ret.pubs : ret.pubs[n] >= ret.counter
    /\ (rop = "tick" /\ rpc = "read") => \A n \in DOMAIN frame_pub : frame_pub[n] >= tick_hdr[1]

\* a tick returns counter 1 with every value already written by publish 2
C2_Witness ==
    /\ TickReturned
    /\ ret.counter = 1
    /\ DOMAIN ret.pubs = Range(base_signals)
    /\ \A n \in DOMAIN ret.pubs : ret.pubs[n] = 2

\* C2 as stated: a tick eventually returns a counter that has advanced to
\* frame n with a slot value that is still the one of frame n-1.
C2_TornOld ==
    <>(/\ TickReturned
       /\ \E n \in DOMAIN ret.pubs : ret.pubs[n] < ret.counter)

\* C3: the values of a returned tick all belong to the frame of its counter,
\* and equal the slots, when the writer made no step of a publish since the
\* counter was read; nothing else makes them agree (see C3_Witness).
C3_ConsistentIfQuiet ==
    (TickReturned /\ buf = "open" /\ wpc = "loop" /\ counter = ret.counter) =>
        /\ \A n \in DOMAIN ret.pubs : ret.pubs[n] = ret.counter
        /\ \A c \in 1..NumSignals :
              base_signals[c] \in DOMAIN ret.frame =>
                  ret.frame[base_signals[c]] = shm.slots[c].value
        /\ ret.counter >= 1 => DOMAIN ret.frame = Range(base_signals)

\* one read_frame mixes the values of two publishes, and the counter returned
\* is the one of the older of the two
C3_Witness ==
    /\ TickReturned
    /\ ret.counter >= 1
    /\ \E n, m \in DOMAIN ret.pubs :
          /\ ret.pubs[n] = ret.counter
          /\ ret.pubs[m] = ret.counter + 1

\* the slots of the reader's working capacity that are ACTIVE under a name
ActiveSlots(name) ==
    { i \in 0..(capacity - 1) :
         IsActive(ViewSlot(i).flags) /\ _decode_name(ViewSlot(i).name) = name }

\* the non-empty decoded names of the ACTIVE slots
ActiveNames ==
    { _decode_name(ViewSlot(i).name) :
         i \in { j \in 0..(capacity - 1) : IsActive(ViewSlot(j).flags) } } \ {<<>>}

\* connect returned: the handle is open on a view of all `capacity` slots
Connected == _buf.open /\ capacity <= _buf.n

FrameReturned == ret.op = "read_frame" /\ ret.err = None

\* C5: on a connected reader and a region at rest, read_frame returns; the keys
\* of the frame are exactly the non-empty decoded names of the ACTIVE slots,
\* each mapped to the value of an ACTIVE slot of that name; inactive slots add
\* nothing, so the frame is empty when no slot is ACTIVE.
C5_FrameOfActiveSlots ==
    /\ (ret.op = "read_frame" /\ Connected) => ret.err = None
    /\ FrameReturned =>
          /\ DOMAIN ret.frame = ActiveNames
          /\ \A name \in DOMAIN ret.frame :
                \E i \in ActiveSlots(name) : ret.frame[name] = ViewSlot(i).value
          /\ (\A i \in 0..(capacity - 1) : ~IsActive(ViewSlot(i).flags))
                => ret.frame = <<>>

\* a frame of one signal read from three slots: ACTIVE "a", a named slot that
\* is not ACTIVE (flags 2), and an ACTIVE slot whose name starts with NUL
C5_Witness ==
    /\ FrameReturned
    /\ capacity = 3
    /\ DOMAIN ret.frame = {NameA}
    /\ ret.frame[NameA] = 1
    /\ shm.slots[2].flags = 2 /\ ret.frame[NameA] # shm.slots[2].value
    /\ shm.slots[3].flags = 3

NamesReturned == ret.op = "list_signals" /\ ret.err = None /\ _buf.open

\* C6: list_signals on a connected reader returns; the list holds exactly the
\* non-empty decoded names of the ACTIVE slots, each once, in strictly
\* increasing lexicographic order, whatever the order of the slots.
C6_SortedOnce ==
    /\ (ret.op = "list_signals" /\ Connected) => ret.err = None
    /\ NamesReturned =>
          /\ Range(ret.names) = ActiveNames
          /\ Len(ret.names) = Cardinality(ActiveNames)
          /\ \A j, k \in DOMAIN ret.names :
                j < k => LexLess(ret.names[j], ret.names[k])

\* "b" is in slot 0 and "a" in slot 1; the list is a, b
C6_Witness ==
    /\ NamesReturned
    /\ ret.names = <<NameA, NameB>>
    /\ _decode_name(shm.slots[1].name) = NameB
    /\ _decode_name(shm.slots[2].name) = NameA

\* the highest slot that is ACTIVE under name
LastSlot(name) == CHOOSE i \in ActiveSlots(name) : \A j \in ActiveSlots(name) : j <= i

\* C7: the index maps every name to the highest slot that is ACTIVE under it,
\* read_frame returns the value of that slot, and list_signals returns the name
\* once.
C7_LastActiveWins ==
    /\ _buf.open => \A k \in DOMAIN _index :
          /\ ActiveSlots(_index[k].name) # {}
          /\ _index[k].i = LastSlot(_index[k].name)
    /\ FrameReturned => \A name \in DOMAIN ret.frame :
          ret.frame[name] = ViewSlot(LastSlot(name)).value
    /\ NamesReturned => \A j, k \in DOMAIN ret.names :
          ret.names[j] = ret.names[k] => j = k

\* "a" is ACTIVE with value 3 in slot 0 and with value 1 in a later slot: the
\* frame holds 1
C7_Witness ==
    /\ FrameReturned
    /\ Cardinality(ActiveSlots(NameA)) >= 2
    /\ shm.slots[1].value = 3 /\ 0 \in ActiveSlots(NameA)
    /\ ret.frame[NameA] = 1
    /\ _index = <<[name |-> NameA, i |-> LastSlot(NameA)]>>

\* a call of read_frame or list_signals on an open handle returns
CallReturns ==
    /\ rpc # "idle" /\ rpc' = "idle"
    /\ ret'.op \in {"read_frame", "list_signals"} /\ ret'.err = None

\* C8: every read_frame and list_signals call that returns on a connected
\* reader reports the signals that are ACTIVE in the region at that call, not
\* those of connect time: a slot activated since is included, a slot
\* deactivated since is not.
C8_SeesRegistration ==
    [][ CallReturns =>
          /\ ret'.op = "read_frame" => DOMAIN ret'.frame = ActiveNames
          /\ ret'.op = "list_signals" => Range(ret'.names) = ActiveNames
          /\ Keys(_index') = ActiveNames ]_vars

\* a frame with "a", which was not ACTIVE when the reader connected, and
\* without "b", which was
C8_Witness ==
    /\ FrameReturned
    /\ index_at_connect = {NameB}
    /\ DOMAIN ret.frame = {NameA}

\* a step of connect from its call: it raises at once or enters _rebuild_index
ConnectCalled == rpc = "idle" /\ (ret'.op = "connect" \/ rop' = "connect")

\* C9: connect on a region that does not start with the magic raises the
\* bad-magic error once the region is opened (a view larger than the mapping
\* may be refused first), and leaves the reader without an open handle, with an
\* empty index and with its capacity unchanged.
C9_BadMagic ==
    [][ (ConnectCalled /\ (~shm.mapped \/ shm.header.magic # MAGIC)) =>
          /\ ret'.op = "connect"
          /\ \/ ret'.err = "Bad mapping magic"
             \/ ret'.err = "mmap failed" /\ shm.mapped /\ capacity > NSlots(shm)
          /\ ~_buf'.open
          /\ _index' = <<>>
          /\ capacity' = capacity
          /\ rpc' = "idle" ]_vars

\* the bad-magic error on a mapped region "VSM2" whose header names another
\* capacity than the reader's
C9_Witness ==
    /\ ret = Raised("connect", "Bad mapping magic")
    /\ shm.mapped /\ shm.header.magic = <<86, 83, 77, 50>>
    /\ shm.header.capacity = 3 /\ capacity = 2
    /\ ~_buf.open /\ _index = <<>>

\* C10 as stated: after a connect that raised, no handle is open
C10_NoHandleAfterFailedConnect ==
    (ret.op = "connect" /\ ret.err # None) => ~_buf.open

\* C11 as stated: a read operation that ended on a reader without an open
\* handle raised the not-connected error.
C11_ReadsFailWhenClosed ==
    (ret.op \in {"read_header", "read_frame", "list_signals"} /\ ~is_connected)
        => ret.err = "Not connected."

\* a step that is a whole call of disconnect (and not a write of the writer
\* after one)
DisconnectCalled ==
    /\ rpc = "idle"
    /\ ret'.op = "disconnect"
    /\ (ret' # ret \/ shm' = shm)

\* C12: every call of disconnect returns without an error and leaves the
\* reader not connected with an empty index and its capacity as it was; a
\* second call in a row changes nothing.
C12_DisconnectIdempotent ==
    [][ DisconnectCalled =>
          /\ ret'.err = None
          /\ ~is_connected'
          /\ _index' = <<>>
          /\ capacity' = capacity
          /\ rpc' = "idle"
          /\ ret.op = "disconnect" => UNCHANGED <<ret, _buf, _index, shm>> ]_vars

\* disconnect returned on a reader that had connected and indexed "a"
C12_Witness ==
    /\ ret = Returned("disconnect")
    /\ index_at_connect = {NameA}
    /\ ~is_connected
    /\ _index = <<>>

\* C13: a connect that returns leaves the working capacity equal to the
\* header's capacity and the handle open on a view of at least that many
\* slots; from then on, until connect or disconnect is called, the capacity
\* stays, no call raises, and every scan ends after slot capacity-1.
C13_HeaderCapacity ==
    [][ /\ (rop = "connect" /\ ret'.op = "connect" /\ ret'.err = None) =>
              /\ capacity' = shm.header.capacity
              /\ is_connected'
              /\ capacity' <= _buf'.n
        /\ (Connected /\ ~ConnectCalled /\ ~DisconnectCalled) =>
              /\ Connected'
              /\ capacity' = capacity
              /\ ret'.err = None
              /\ (rpc = "scan" /\ rpc' # "scan") => ri = shm.header.capacity ]_vars

\* list_signals returned on a reader constructed with capacity 3 and connected
\* to a region whose header says 2
C13_Witness ==
    /\ NamesReturned
    /\ _buf.n = 3
    /\ shm.header.capacity = 2
    /\ capacity = 2

\* C14: from the end of signal registration on, no step of the writer changes
\* the name, flags or pad of any slot, nor any field of a slot beyond those of
\* the known signals, and the known signals keep the slots 0..4 they were
\* registered in.
C14_PublishWritesValuesOnly ==
    [][ (InLoop /\ buf = "open" /\ buf' = "open") =>
          /\ NSlots(shm') = NSlots(shm)
          /\ \A k \in 1..NSlots(shm) :
                /\ shm'.slots[k].name = shm.slots[k].name
                /\ shm'.slots[k].flags = shm.slots[k].flags
                /\ shm'.slots[k].pad = shm.slots[k].pad
                /\ k > NumSignals => shm'.slots[k] = shm.slots[k]
                /\ k <= NumSignals =>
                      /\ IsActive(shm.slots[k].flags)
                      /\ _decode_name(shm.slots[k].name) = base_signals[k] ]_vars

\* three publishes of a replay file into a region of six slots: slot 0 holds a
\* published value under its name, slot 5 is as _init_mapping left it
C14_Witness ==
    /\ buf = "open" /\ wpc = "loop" /\ counter = 3
    /\ NSlots(shm) = NumSignals + 1
    /\ shm.slots[1].value = 11
    /\ _decode_name(shm.slots[1].name) = base_signals[1]
    /\ shm.slots[NumSignals + 1] = SlotRecord(<<>>, 0, FALSE)

\* _init_mapping has returned and nothing is registered yet
Initialized == buf = "open" /\ wpc = "register" /\ wi = 0

\* C15: when _init_mapping has returned, the header holds the magic, version
\* 1, counter 0 and the configured capacity, the region has that many slots,
\* and every slot has the ACTIVE flag clear and an empty name, so that an index
\* built from it is empty.
C15_InitialRegion ==
    Initialized =>
        /\ shm.header.magic = <<86, 83, 77, 49>>
        /\ shm.header.version = 1
        /\ shm.header.counter = 0
        /\ shm.header.capacity = cfg.capacity
        /\ NSlots(shm) = cfg.capacity
        /\ \A k \in 1..NSlots(shm) :
              /\ ~IsActive(shm.slots[k].flags)
              /\ shm.slots[k].flags = 0
              /\ _decode_name(shm.slots[k].name) = <<>>
              /\ shm.slots[k].value = 0
              /\ IndexSlot(<<>>, shm.slots[k], k - 1) = <<>>

\* a region of six slots right after its initialisation
C15_Witness ==
    /\ Initialized
    /\ cfg.capacity = NumSignals + 1
    /\ NSlots(shm) = NumSignals + 1
    /\ shm.header.capacity = NumSignals + 1

TickReturns == rop = "tick" /\ rpc = "read" /\ rpc' = "idle"

\* C17: a tick that read the region returns its frame, never an error; when
\* the writer wrote nothing since the tick before began, it returns the counter
\* and the frame that tick returned.
C17_RepeatedFrame ==
    [][ TickReturns =>
          /\ ret'.op = "tick" /\ ret'.err = None
          /\ (last_poll.n > 0 /\ ~last_poll.dirty) =>
                /\ ret'.counter = last_poll.counter
                /\ ret'.frame = last_poll.frame ]_vars

\* the second of two ticks on frame 1 has returned counter 1 and the five
\* values again
C17_Witness ==
    /\ TickReturned
    /\ last_poll.n = 2
    /\ ret.counter = 1 /\ last_poll.counter = 1
    /\ DOMAIN ret.frame = Range(base_signals)
    /\ ret.frame = last_poll.frame


(***************************************************************************)
(* PlotWidget history                                                      *)
(***************************************************************************)
TrackOf(name) == _tracks[CHOOSE k \in DOMAIN _tracks : _tracks[k].signal_name = name]
Points(tr) == [i \in 1..Len(tr.x) |-> <<tr.x[i], tr.y[i]>>]
LastN(l, k) == SubSeq(l, Len(l) - k + 1, Len(l))
\* the track is between the append and the eviction of an observation
MidObservation(name) == ppc = "trim" /\ _tracks[pk].signal_name = name

\* C18: a track all of whose n observations were made with the same
\* max_points = m >= 1 holds, once the observation is over, exactly the last
\* min(n, m) observed (x, y) points, in the order they were observed.
C18_LastPoints ==
    \A name \in TrackNames : \A m \in 1..MaxPoints :
        (seen[name].ms = {m} /\ ~MidObservation(name))
        => /\ Len(TrackOf(name).x) = Len(TrackOf(name).y)
           /\ Points(TrackOf(name))
                = LastN(seen[name].pts, Min(Len(seen[name].pts), m))

\* a track observed more than m times with max_points = m: points were evicted
C18_Witness ==
    \E name \in TrackNames : \E m \in 1..MaxPoints :
        /\ seen[name].ms = {m}
        /\ Len(seen[name].pts) > m
        /\ ppc = "idle"
        /\ Len(TrackOf(name).x) = m

\* the tracks of the running tick whose observation has appended its point
Appended == { k \in DOMAIN _tracks :
                /\ ppc \in {"loop", "trim"}
                /\ _tracks[k].signal_name \in DOMAIN pframe
                /\ k < pk \/ (k = pk /\ ppc = "trim") }

\* C19: from the append of an observation on, and after the observation is
\* over, the track holds at most max_points points.
C19_HardCap ==
    \A k \in Appended : Len(_tracks[k].x) <= pmax /\ Len(_tracks[k].y) <= pmax

YsSeen(name) == { seen[name].pts[i][2] : i \in DOMAIN seen[name].pts }
YsHeld(name) == { TrackOf(name).y[i] : i \in DOMAIN TrackOf(name).y }
IsMinOf(v, S) == v \in S /\ \A w \in S : v <= w
IsMaxOf(v, S) == v \in S /\ \A w \in S : v >= w

Extrema ==
    \A name \in TrackNames :
        IF seen[name].pts = <<>>
        THEN TrackOf(name).min_val = <<>> /\ TrackOf(name).max_val = <<>>
        ELSE /\ Len(TrackOf(name).min_val) = 1
             /\ Len(TrackOf(name).max_val) = 1
             /\ IsMinOf(TrackOf(name).min_val[1], YsSeen(name))
             /\ IsMaxOf(TrackOf(name).max_val[1], YsSeen(name))
             /\ \A y \in YsHeld(name) :
                    TrackOf(name).min_val[1] <= y /\ y <= TrackOf(name).max_val[1]

ExtremaStep ==
    \A name \in TrackNames \cap TrackNames' :
        LET tr == TrackOf(name)
            tr2 == TrackOf(name)'
        IN  /\ (ppc = "trim") => (tr2.min_val = tr.min_val /\ tr2.max_val = tr.max_val)
            /\ tr.min_val # <<>>
                 => /\ tr2.min_val # <<>> /\ tr2.min_val[1] <= tr.min_val[1]
                    /\ tr2.max_val # <<>> /\ tr2.max_val[1] >= tr.max_val[1]

\* C20: min_val and max_val of a track that has observed a value are the
\* least and the greatest y observed since the track was created; they bound
\* every y still held; the eviction leaves them as they are, and no step
\* raises min_val or lowers max_val.
C20_RunningExtrema == []Extrema /\ [][ExtremaStep]_vars

\* the least value observed has been evicted and min_val still holds it
C20_Witness ==
    \E name \in TrackNames :
        /\ ppc = "idle"
        /\ TrackOf(name).y # <<>>
        /\ TrackOf(name).min_val # <<>>
        /\ \A y \in YsHeld(name) : TrackOf(name).min_val[1] < y
        /\ TrackOf(name).max_val[1] \in YsHeld(name)


(***************************************************************************)
(* Failures of the writer                                                  *)
(***************************************************************************)
\* the replay source is a file with no row at all, or with a header row only
EmptySource ==
    cfg.csv.kind = "file" /\ (cfg.csv.fieldnames = <<>> \/ cfg.csv.rows = <<>>)

\* C24: on an empty or headerless replay source run_emulator leaves with the
\* ValueError of _load_csv_rows, and at that time it has created no mapping
\* and written no header and no slot.
C24_ConfigErrorBeforeRegion ==
    (IS_WINDOWS /\ EmptySource /\ wpc # "start")
    => /\ wpc = "raised"
       /\ werr \in {"CSV has no header row", "CSV has no data rows"}
       /\ buf = None
       /\ shm = NoMapping
       /\ slot_pub = <<>>
       /\ counter = 0

\* the writer has left on a file that holds a header row and no data row
C24_Witness ==
    /\ wpc = "raised"
    /\ werr = "CSV has no data rows"
    /\ cfg.csv.fieldnames # <<>>
    /\ ~shm.mapped

\* C25: a writer that has left after it created the region has closed its
\* handle, and a header with counter c >= 1 is only ever in the region
\* together with the five values of publish c or of a later publish.
C25_HandleClosedOnExit ==
    /\ (wpc \in {"stopped", "raised"} /\ buf # None) => buf = "closed"
    /\ (shm.mapped /\ shm.header.counter >= 1)
         => \A i \in 1..NumSignals : slot_pub[i] >= shm.header.counter

(***************************************************************************)
(* Names and headers on the wire                                           *)
(***************************************************************************)
\* a name the writer can store: no NUL character in it
ValidName(name) == \A k \in DOMAIN name : name[k] # 0
IsPrefix(a, b) == Len(a) <= Len(b) /\ a = SubSeq(b, 1, Len(a))

\* C26: a name without NUL whose UTF-8 encoding has at most 63 bytes is
\* encoded to 64 bytes, the last of them zero, and decoded to itself; the
\* version, counter and capacity unpacked from a packed header are the ones
\* that were packed.
C26_RoundTrip ==
    cpc = "decoded" =>
        /\ (ValidName(cin.name) /\ Len(Utf8Encode(cin.name)) <= SLOT_NAME_BYTES - 1)
             => /\ Len(cenc.name) = SLOT_NAME_BYTES
                /\ cenc.name[SLOT_NAME_BYTES] = 0
                /\ cdec.name = cin.name
        /\ cdec.header.magic = MAGIC
        /\ cdec.header.version = cin.version
        /\ cdec.header.counter = cin.counter
        /\ cdec.header.capacity = cin.capacity

\* a name of exactly 63 bytes with a two-byte character, and a counter and a
\* capacity of more than one byte, have gone through
C26_Witness ==
    /\ cpc = "decoded"
    /\ Len(Utf8Encode(cin.name)) = SLOT_NAME_BYTES - 1
    /\ \E k \in DOMAIN cin.name : cin.name[k] = 233
    /\ cdec.name = cin.name
    /\ cin.counter > 255
    /\ cin.capacity > 255

\* C27: a name without NUL whose UTF-8 encoding has more than 63 bytes is
\* encoded to exactly 64 bytes, the first 63 bytes of its encoding and one
\* zero byte, and decoded to a prefix of the name.
C27_Truncation ==
    (cpc = "decoded" /\ ValidName(cin.name)
        /\ Len(Utf8Encode(cin.name)) > SLOT_NAME_BYTES - 1)
    => /\ Len(cenc.name) = SLOT_NAME_BYTES
       /\ cenc.name = Take(Utf8Encode(cin.name), SLOT_NAME_BYTES - 1) \o <<0>>
       /\ IsPrefix(cdec.name, cin.name)

(***************************************************************************)
(* PlotWidget statistics and clearing                                      *)
(***************************************************************************)
\* the step of tick that observes the value of the track at pk
ObserveStep == ppc = "loop" /\ ppc' = "trim"

\* C21: `changed` of an observation is true exactly when the observation
\* assigned min_val or max_val; the first observation of a track sets both to
\* the value and reports true; a value v with min_val <= v <= max_val reports
\* false and leaves both as they are.
C21_StatsChanged ==
    [][ObserveStep =>
        LET tr == _tracks[pk]
            after == _tracks'[pk]
            v == pframe[tr.signal_name]
        IN  /\ pchanged' <=> (after.min_val # tr.min_val \/ after.max_val # tr.max_val)
            /\ seen[tr.signal_name].pts = <<>>
                 => pchanged' /\ after.min_val = <<v>> /\ after.max_val = <<v>>
            /\ (tr.min_val # <<>> /\ tr.max_val # <<>>
                   /\ tr.min_val[1] <= v /\ v <= tr.max_val[1])
                 => ~pchanged' /\ after.min_val = tr.min_val /\ after.max_val = tr.max_val
    ]_vars

\* an observation of a value equal to the recorded minimum, below the
\* recorded maximum, has reported false
C21_Witness ==
    /\ ppc = "trim"
    /\ ~pchanged
    /\ _tracks[pk].min_val = <<pframe[_tracks[pk].signal_name]>>
    /\ _tracks[pk].max_val[1] > _tracks[pk].min_val[1]

\* C22: clear_signals leaves every signal that was tracked still tracked,
\* with no point and with min_val and max_val unset.
C22_ClearKeepsRegistration ==
    [][pcall' = "clear_signals" =>
        \A name \in TrackNames :
            /\ name \in TrackNames'
            /\ TrackOf(name)'.x = <<>>
            /\ TrackOf(name)'.y = <<>>
            /\ TrackOf(name)'.min_val = <<>>
            /\ TrackOf(name)'.max_val = <<>>
    ]_vars

(***************************************************************************)
(* The main window                                                         *)
(***************************************************************************)
\* the state in which _on_tick goes on to read, spelled out
Streaming == is_running /\ provider # None /\ _buf.open
\* the read of a tick ends with an exception
TickReadFails == gpc = "tick" /\ rpc' = "idle" /\ ret'.err # None
Plots == <<plot_top, plot_bottom>>

\* C23: the step in which read_frame of a tick raises leaves both plots as
\* they are and ends the handler without another read; the window is still
\* streaming with its timer active, so that the next timeout reads again.
C23_FailedTickPlotsNothing ==
    [][TickReadFails =>
        /\ Plots' = Plots
        /\ gpc' = "idle"
        /\ rop' = None
        /\ Streaming'
        /\ timer'
    ]_vars

\* a tick has failed on a provider whose view is smaller than the capacity
\* in the header, with plots that track signals
C23_Witness ==
    /\ ret.op = "tick"
    /\ ret.err = "struct.error"
    /\ gpc = "idle"
    /\ plot_top # <<>>
    /\ Streaming

NonDecreasing(l) == \A i \in 1..(Len(l) - 1) : l[i] <= l[i + 1]
\* the tracks of one plot after it was handed frame f and x
Fed(before, after, f, x) ==
    /\ Len(after) = Len(before)
    /\ \A k \in DOMAIN before :
          IF before[k].signal_name \in DOMAIN f
          THEN /\ after[k].x = Append(before[k].x, x)
               /\ after[k].y = Append(before[k].y, f[before[k].signal_name])
          ELSE after[k] = before[k]

\* C28: the step that plots a tick appends, in both plots and to every track
\* whose signal is in the frame read by that tick, the point (counter, value)
\* with the counter read by the same tick; and as long as no writer has
\* replaced the region and the provider has not been disconnected, the x of
\* every track are in non-decreasing order.
C28_CounterIsX ==
    /\ [][(gpc = "plot" /\ gpc' = "idle")
            => /\ Fed(plot_top, plot_top', ret.frame, ret.counter)
               /\ Fed(plot_bottom, plot_bottom', ret.frame, ret.counter)]_vars
    /\ [](steady => \A p \in {1, 2} : \A k \in DOMAIN Plots[p] :
                        NonDecreasing(Plots[p][k].x))

\* both plots hold two points of the same signal at two different counters
C28_Witness ==
    /\ steady
    /\ plot_top # <<>> /\ plot_bottom # <<>>
    /\ Len(plot_top[1].x) >= 2
    /\ plot_top[1].x[1] < plot_top[1].x[2]
    /\ plot_bottom[1].x = plot_top[1].x
    /\ plot_bottom[1].y = plot_top[1].y

\* C29: a timeout of the timer outside the streaming state reads nothing from
\* the provider and changes no plot; a tick is entered, and a frame plotted,
\* only in the streaming state.
C29_TickOnlyWhenStreaming ==
    /\ [][(wticks' = wticks + 1 /\ ~Streaming)
            => /\ rvars' = rvars
               /\ Plots' = Plots
               /\ gpc' = "idle"]_vars
    /\ [](gpc \in {"tick", "plot"} => Streaming)

\* the timer started at construction has fired on a connected provider
\* before streaming was started, and nothing was read or plotted
C29_Witness ==
    /\ wticks >= 1
    /\ ~is_running
    /\ timer
    /\ provider # None /\ _buf.open
    /\ ret.op = "connect"
    /\ gpc = "idle"

\* C30: is_running is true only with a provider that is set and connected.
C30_RunningImpliesConnected ==
    is_running => (provider # None /\ _buf.open)

(***************************************************************************)
(* The writer's slot accesses                                              *)
(***************************************************************************)
\* C31: every step in which the writer initialises, registers or publishes a
\* slot addresses a slot index below the configured capacity.
C31_SlotIndexInRange ==
    [][(InitSlot \/ Register \/ PublishSlot) => wi < cfg.capacity]_vars

(***************************************************************************)
(* What a tick and add_signal leave alone                                  *)
(***************************************************************************)
IsSuffix(a, b) == Len(a) <= Len(b) /\ a = LastN(b, Len(a))
\* how many of the x of a track are the x of the running tick
CountX(tr, x) == Cardinality({ i \in 1..Len(tr.x) : tr.x[i] = x })
\* a step of a call of tick, from the call to the return
PlotTickStep == ppc # "idle" \/ ppc' # "idle"
\* tick returns
PlotTickReturns == ppc = "loop" /\ ppc' = "idle"
\* the step appends the point of the running tick to the track
AppendsPoint(tr, tr2) ==
    /\ tr2.x = Append(tr.x, px)
    /\ tr2.y = Append(tr.y, pframe[tr.signal_name])
\* the step only evicts points of the track
OnlyEvicts(tr, tr2) ==
    /\ IsSuffix(tr2.x, tr.x) /\ IsSuffix(tr2.y, tr.y)
    /\ tr2.min_val = tr.min_val /\ tr2.max_val = tr.max_val

\* C32: during a tick the tracked names stay the same, a track changes only
\* if its signal is in the frame, and then by the append of the tick's point
\* or by an eviction; when the tick returns, every track whose signal is in
\* the frame holds exactly one point with the x of this tick and every other
\* track holds none. add_signal keeps every existing track as it is and
\* never tracks a name twice.
C32_TickFrameEffect ==
    [][/\ PlotTickStep =>
            /\ Len(_tracks') = Len(_tracks)
            /\ \A k \in DOMAIN _tracks :
                  /\ _tracks'[k].signal_name = _tracks[k].signal_name
                  /\ _tracks'[k] # _tracks[k] =>
                        /\ _tracks[k].signal_name \in DOMAIN pframe
                        /\ \/ AppendsPoint(_tracks[k], _tracks'[k])
                           \/ OnlyEvicts(_tracks[k], _tracks'[k])
       /\ PlotTickReturns =>
            \A k \in DOMAIN _tracks :
                CountX(_tracks[k], px) =
                    IF _tracks[k].signal_name \in DOMAIN pframe THEN 1 ELSE 0
       /\ (ppc = "idle" /\ pcall' = "add_signal") =>
            /\ \A k \in DOMAIN _tracks : _tracks'[k] = _tracks[k]
            /\ Cardinality(TrackNames') = Len(_tracks')
            /\ Len(_tracks') <= Len(_tracks) + 1
    ]_vars

\* a tick is about to return: of two tracks with points, the one whose signal
\* is in the frame has gained the point of this tick and the other has not,
\* and the frame carries no other name
C32_Witness ==
    /\ ppc = "loop" /\ pk > Len(_tracks)
    /\ Len(_tracks) = 2
    /\ DOMAIN pframe = {_tracks[2].signal_name}
    /\ _tracks[1].x # <<>> /\ _tracks[1].x[Len(_tracks[1].x)] < px
    /\ Len(_tracks[2].x) >= 2 /\ _tracks[2].x[Len(_tracks[2].x)] = px

(***************************************************************************)
(* TelemetryWorker                                                         *)
(***************************************************************************)
\* what get_latest returns before the first iteration has stored anything
InitialPair == <<0, NoSample>>

\* C33: every pair get_latest has returned is the pair one iteration of the
\* loop stored, or the initial pair (0.0, None).
C33_LatestPairConsistent ==
    got # <<>> => got \in pairs \cup {InitialPair}

\* get_latest has returned the pair of the second iteration while the loop
\* of the same call is still running and has read a third sample
C33_Witness ==
    /\ got = <<2, 2>>
    /\ _running
    /\ kpc \in {"lock", "store_t", "store_s"}
    /\ ks = 3
    /\ upc = "idle"

\* how often status e was emitted by the running call
CountStatus(e) == Cardinality({ i \in 1..Len(statuses) : statuses[i] = e })
\* a call of start_stream that passed the guard returns
StreamReturns == kpc # "idle" /\ kpc' = "idle"
\* a call of start_stream finds _running true
GuardedCall == _running /\ worker_start_stream

\* C34: a call of start_stream that finds _running true changes nothing;
\* every call that passed the guard returns with _running false and _shm
\* None, having emitted status "stopped" once, as its last status, and
\* finished once; and whenever no call is in progress _running is false, so
\* that the next call passes the guard.
C34_StartStreamLifecycle ==
    /\ [][GuardedCall =>
            UNCHANGED <<_running, _shm, _lock, _latest_t, _latest_sample, kpc,
                        statuses, nfinished, ncalls, nreads>>]_vars
    /\ [][StreamReturns =>
            /\ ~_running' /\ _shm' = None
            /\ CountStatus("stopped")' = 1
            /\ statuses'[Len(statuses')] = "stopped"
            /\ nfinished' = 1]_vars
    /\ [](kpc = "idle" => ~_running /\ _shm = None)

\* the first call streamed, was stopped and returned; the second call failed
\* to open the shared memory and has returned as well
C34_Witness ==
    /\ ncalls = 2
    /\ kpc = "idle"
    /\ nreads >= 1
    /\ statuses = <<"opening shared memory", "error", "stopped">>
    /\ nfinished = 1
    /\ ~_running /\ _shm = None

(***************************************************************************)
(* Stopping                                                                *)
(***************************************************************************)
\* how many positions of start_stream lie between a position and the return,
\* at most, once _running is false
StepsToReturn(pc) ==
    CASE pc = "idle" -> 0
      [] pc = "emit" -> 1
      [] pc = "clear_running" -> 2
      [] pc = "clear_shm" -> 3
      [] pc = "finally" -> 4
      [] pc = "except" -> 5
      [] pc = "check" -> 6
      [] pc = "unlock" -> 7
      [] pc = "store_s" -> 8
      [] pc = "store_t" -> 9
      [] pc = "lock" -> 10
      [] pc = "read" -> 11
      [] pc = "open" -> 12
      [] pc = "construct" -> 13
      [] OTHER -> 14
\* a step of the thread that runs start_stream
StreamThread ==
    \/ Construct \/ Open \/ LoopCheck \/ Read \/ Acquire \/ StoreT \/ StoreS
    \/ Release \/ Except \/ Finally \/ ClearShm \/ ClearRunning \/ EmitStopped
\* get_latest holds the lock and is on its way to release it
GetHoldsLock == _lock = "ui" /\ ENABLED (GetT \/ GetS \/ GetReturn)

\* C35: once stop_stream has cleared _running under a running call of the
\* worker, every step of the call's thread is a step towards its return: a read
\* in flight is completed and stored, the flag check that follows leads to the
\* finally block and not to another read, and the return emits finished;
\* the thread can always take its next step, except while get_latest holds
\* the lock, which get_latest then releases. In the main window stop_stream
\* leaves is_running false and the timer stopped; while is_running is false
\* no timeout reads the provider, and is_running becomes true again only in a
\* start_stream that ends with the provider connected.
C35_StopIsEffective ==
    /\ [][(stopped /\ kpc' # kpc) =>
            /\ StepsToReturn(kpc') < StepsToReturn(kpc)
            /\ kpc' = "idle" => nfinished' = 1]_vars
    /\ [](stopped => (ENABLED StreamThread \/ GetHoldsLock))
    /\ [][stop_stream => (~is_running' /\ ~timer')]_vars
    /\ [][(~is_running /\ wticks' = wticks + 1) => rvars' = rvars]_vars
    /\ [](gpc \in {"tick", "plot"} => is_running)
    /\ [][(~is_running /\ is_running') =>
            /\ start_stream \/ Continue
            /\ provider' # None /\ _buf'.open]_vars

\* stop_stream was called on a streaming worker; its loop has stored what it
\* read, left at the flag check and is about to emit stopped and finished
C35_Witness ==
    /\ kobj = "TelemetryWorker"
    /\ stopped
    /\ kpc = "emit"
    /\ nreads >= 1
    /\ _latest_sample = nreads
    /\ statuses[Len(statuses)] = "streaming"

====
